---- MODULE Spec2Model ----
(***************************************************************************)
(* Model of fractic-io/rust-iap: Apple / Google in-app-purchase trust      *)
(* verification and normalisation (IapRepositoryImpl and its datasources). *)
(*                                                                         *)
(* Every public operation is request-scoped.  One action models one whole  *)
(* call: it draws the call's arguments and the answers of the vendor       *)
(* endpoints from bounded sets, computes the result exactly as the code    *)
(* does, and records the ordered list of externally visible steps          *)
(* (callouts, verifications, decodes) in `calls`.  `Return` hands the      *)
(* result to the caller, after which the instance is idle again.           *)
(***************************************************************************)
EXTENDS Integers, Sequences, FiniteSets, TLC

VARIABLES now, pc, op, input, result, calls,
          APPLE_TRUST_STORE, trust_store_loads, verifiers, jwt_token

vars == <<now, pc, op, input, result, calls,
          APPLE_TRUST_STORE, trust_store_loads, verifiers, jwt_token>>

----------------------------------------------------------------------------
(* Bounds *)

\* Timestamps range over 0..MaxTime.
MaxTime == 2
\* Longest x5c certificate chain offered to the Apple verifier.
MaxChain == 2
\* Largest number of line items in a Google subscription response.
MaxItems == 2
\* Longest audience array in a Google token.
MaxAud == 2

Times == 0..MaxTime

----------------------------------------------------------------------------
(* Option<T>, Result<T, ServerError> *)

None == [some |-> FALSE]
Some(x) == [some |-> TRUE, v |-> x]
Opt(S) == {None} \cup {Some(x) : x \in S}

Ok(x) == [ok |-> TRUE, v |-> x]
Err(kind, detail) == [ok |-> FALSE, err |-> kind, detail |-> detail]

Range(s) == {s[i] : i \in 1..Len(s)}

SeqsUpTo(S, n) == UNION {[1..k -> S] : k \in 0..n}

----------------------------------------------------------------------------
(* Apple trust verifier: utils.rs, validate_and_parse_apple_jws            *)

\* Audience the instance was constructed with (expected_aud), and the value
\* of a payload's aud claim: absent, a single string, or an array.
ExpectedAud == "aud.expected"
Audiences == {"aud.expected", "aud.other"}
AudAbsent == [form |-> "absent", vs |-> <<>>]
AudOne(a) == [form |-> "one", vs |-> <<a>>]
AudMany(s) == [form |-> "many", vs |-> s]

\* X.509 certificates that can appear in an x5c header, by name.  Each has
\* an issuer and a public key; "garbled" stands for an entry that is not
\* base64 / DER decodable.  TrustStore is the pinned Apple material.
CertNames == {"leafWwdr", "leafInter", "inter", "leafEvil", "rootEvil", "garbled"}
TrustStore ==
  {"AppleRootCA-G2", "AppleRootCA-G3", "AppleWWDRCAG2", "AppleWWDRCAG3", "AppleWWDRCAG4",
   "AppleWWDRCAG5", "AppleWWDRCAG6", "AppleWWDRCAG8"}
Issuer(c) ==
  CASE c = "leafWwdr" -> "AppleWWDRCAG6"
    [] c = "leafInter" -> "inter"
    [] c = "inter" -> "AppleRootCA-G3"
    [] c = "leafEvil" -> "rootEvil"
    [] c = "rootEvil" -> "rootEvil"
    [] c = "AppleWWDRCAG6" -> "AppleRootCA-G3"
    [] c = "AppleRootCA-G3" -> "AppleRootCA-G3"
    [] OTHER -> "nobody"
PublicKey(c) == c
Keys == {PublicKey(c) : c \in {"leafWwdr", "leafInter", "leafEvil"}}

\* utils.rs APPLE_TRUST_STORE is a once_cell Lazy<Result<X509Store, ErrorStack>>:
\* a process-wide cell that is empty until its first use, is filled by one
\* run of its initializer, and hands out shared references to that one value.
\* The variable APPLE_TRUST_STORE is the cell.
LazyUninit == [state |-> "uninit", value |-> None]
LazyRunning == [state |-> "running", value |-> None]
LazyInit(value) == [state |-> "init", value |-> value]

\* What the initializer can evaluate to: the store with the eight pinned
\* certificates, or the ErrorStack of a certificate that failed to decode or
\* to be added (the `?` arms of the initializer).
TrustStoreLoads == {Ok(TrustStore), Err("ErrorStack", "openssl")}

\* Variant in which a thread that finds the initializer running starts the
\* initializer as well.
LazyClaimable_Racy(cell) == cell.state # "init"

\* Lazy::force, first half: the thread that finds the cell empty runs the
\* initializer; a thread that finds it running waits.
LazyClaimable(cell) == cell.state = "uninit"

\* Lazy::force as one step of a call that runs alone: a filled cell gives its
\* value, an empty one is filled from the certificates compiled into the
\* binary, which are the eight valid ones.
LazyForce(cell) == IF cell.state = "init" THEN cell.value ELSE Ok(TrustStore)

\* The steps of validate_and_parse_apple_jws that come before the store is
\* touched all pass: header, x5c field, certificate decoding, non-empty chain.
ReachesTrustStore(jws) ==
  /\ jws.header_ok
  /\ jws.x5c.some
  /\ "garbled" \notin Range(jws.x5c.v)
  /\ jws.x5c.v # <<>>

\* X509StoreContext::verify_cert: the leaf is valid iff a path of issuers,
\* each taken from the untrusted chain, ends at a certificate of the store.
RECURSIVE ChainsToStore(_, _, _, _)
ChainsToStore(cert, chain, store, depth) ==
  \/ Issuer(cert) \in store
  \/ /\ depth > 0
     /\ Issuer(cert) \in Range(chain)
     /\ Issuer(cert) # cert
     /\ ChainsToStore(Issuer(cert), chain, store, depth - 1)

\* Variant that looks one issuer up and takes an issuer supplied in the
\* chain as trusted.
verify_cert_OneLevel(store, leaf, chain) ==
  Issuer(leaf) \in store \/ Issuer(leaf) \in Range(chain)

verify_cert(store, leaf, chain) == ChainsToStore(leaf, chain, store, Len(chain))

\* jsonwebtoken::decode step 1: the ES256 signature over header.payload is
\* checked with the key handed in.
SignatureVerifies(jws, key) ==
  jws.alg = "ES256" /\ jws.signer = key /\ ~jws.tampered

\* jsonwebtoken::decode step 2 with validation.set_audience(&[expected_aud])
\* and required_spec_claims emptied: an aud claim that is present must
\* contain the expected audience; an absent aud claim is not required.
AppleAudienceValid(aud, expected_aud) ==
  aud.form = "absent" \/ expected_aud \in Range(aud.vs)

\* Result and ordered trace of validate_and_parse_apple_jws::<T>(jws, aud).
validate_and_parse_apple_jws(jws, expected_aud, T) ==
  IF ~jws.header_ok THEN
    [res |-> Err("InvalidJws", "failed to parse JWS header"), trace |-> <<"decode_header">>]
  ELSE IF ~jws.x5c.some THEN
    [res |-> Err("InvalidJws", "missing x5c field in JWS header"),
     trace |-> <<"decode_header">>]
  ELSE IF "garbled" \in Range(jws.x5c.v) THEN
    [res |-> Err("InvalidAppleSignature", "failed to decode x5c certs"),
     trace |-> <<"decode_header", "decode_x5c">>]
  ELSE IF jws.x5c.v = <<>> THEN
    [res |-> Err("InvalidAppleSignature", "empty x5c chain"),
     trace |-> <<"decode_header", "decode_x5c">>]
  ELSE
    LET leaf_cert == Head(jws.x5c.v)
        chain == Tail(jws.x5c.v)
        store == LazyForce(APPLE_TRUST_STORE)
        t1 == <<"decode_header", "decode_x5c", "verify_cert">>
    IN IF ~store.ok THEN
         [res |-> Err("CriticalError", "failed to build Apple trust store"),
          trace |-> <<"decode_header", "decode_x5c", "trust_store">>]
       ELSE IF ~verify_cert(store.v, leaf_cert, chain) THEN
         [res |-> Err("InvalidAppleSignature", "invalid x5c chain"), trace |-> t1]
       ELSE IF ~SignatureVerifies(jws, PublicKey(leaf_cert)) THEN
         [res |-> Err("InvalidAppleSignature", "failed to verify JWS signature"),
          trace |-> t1 \o <<"verify_signature">>]
       ELSE IF ~AppleAudienceValid(jws.aud, expected_aud) THEN
         [res |-> Err("InvalidAppleSignature", "failed to verify JWS signature"),
          trace |-> t1 \o <<"verify_signature", "validate_aud">>]
       ELSE IF jws.payload.kind # T THEN
         [res |-> Err("InvalidJws", "failed to parse JWS payload"),
          trace |-> t1 \o <<"verify_signature", "validate_aud", "parse_payload">>]
       ELSE
         [res |-> Ok(jws.payload),
          trace |-> t1 \o <<"verify_signature", "validate_aud", "parse_payload">>]

----------------------------------------------------------------------------
(* Google trust verifier: utils.rs, validate_google_header                 *)

\* authentication_header.trim_start_matches("Bearer ").trim(): every leading
\* "Bearer " is removed, then surrounding blanks.  A header is modelled as
\* the sequence of its blank-separated words, each a record: the word
\* "Bearer", or a token with its signature status and aud claim.
RECURSIVE trim_start_matches_Bearer(_)
trim_start_matches_Bearer(words) ==
  IF words # <<>> /\ Head(words).w = "Bearer"
  THEN trim_start_matches_Bearer(Tail(words))
  ELSE words

\* RemoteJwksVerifier::verify: the token must be a single well-formed JWT
\* whose signature checks against the published key set.
JwksVerifies(words) ==
  Len(words) = 1 /\ words[1].w = "jwt" /\ words[1].sig = "ok"

GoogleAudienceValid(aud, expected_aud) ==
  IF aud.form = "one" THEN aud.vs[1] = expected_aud
  ELSE \E i \in 1..Len(aud.vs) : aud.vs[i] = expected_aud

validate_google_header(authentication_header, expected_aud) ==
  LET token == trim_start_matches_Bearer(authentication_header)
  IN IF ~JwksVerifies(token) THEN Err("InvalidGoogleSignature", "token")
     ELSE IF ~GoogleAudienceValid(token[1].aud, expected_aud)
          THEN Err("InvalidGoogleSignature", "audience")
          ELSE Ok("verified")

----------------------------------------------------------------------------
(* Vendor data models                                                      *)

ProductTypes == {"Subscription", "Consumable", "NonConsumable"}

AppStoreTransactionId(id) == [vendor |-> "AppStoreTransactionId", id |-> id]
GooglePlayPurchaseToken(t) == [vendor |-> "GooglePlayPurchaseToken", id |-> t]

Known(b) == [known |-> TRUE, v |-> b]
Unknown == [known |-> FALSE]

\* Variant that passes the code on as it came.
from_alpha2_PassedThrough(code) == Some(code)

\* rust_iso3166::from_alpha2(code).alpha3, on the codes the model uses.
from_alpha2(code) ==
  CASE code = "US" -> Some("USA")
    [] code = "NL" -> Some("NLD")
    [] OTHER -> None

\* An i64 is four 16-bit limbs, least significant first, in two's
\* complement: the values of the type do not fit the checker's integers.
Limb == 65536
SignLimb == 32768
\* The i64 of a small natural number.
I64(n) == <<n % Limb, (n \div Limb) % Limb, 0, 0>>
\* The i64 of minus a small positive number.
I64Neg(n) == <<Limb - n, Limb - 1, Limb - 1, Limb - 1>>

\* x * k on i64 for x >= 0 and a small k > 0: the 64 bits the machine keeps
\* (wrapped) and whether the product left the range of the type (overflow).
i64_mul(x, k) ==
  LET p1 == x[1] * k
      p2 == x[2] * k + p1 \div Limb
      p3 == x[3] * k + p2 \div Limb
      p4 == x[4] * k + p3 \div Limb
  IN [wrapped |-> <<p1 % Limb, p2 % Limb, p3 % Limb, p4 % Limb>>,
      overflow |-> (p4 >= SignLimb)]

\* str::parse::<i64> on the price strings the model uses.
parse_i64(str) ==
  CASE str = "1990000" -> Some(I64(1990000))
    [] str = "-5" -> Some(I64Neg(5))
    [] OTHER -> None

----------------------------------------------------------------------------
(* Normalizer: iap_repository_impl.rs                                      *)

\* Variant that takes a transaction expiring at this very instant as active.
AppleIsActive_NotEarlier(m, utc_now) ==
  /\ ~m.revocation_date.some
  /\ ~m.revocation_reason.some
  /\ IF m.expires_date.some THEN m.expires_date.v >= utc_now ELSE TRUE

\* IapDetails::from_apple_transaction, field is_active.
AppleIsActive(m, utc_now) ==
  /\ ~m.revocation_date.some
  /\ ~m.revocation_reason.some
  /\ IF m.expires_date.some THEN m.expires_date.v > utc_now ELSE TRUE

\* Variant that gives a subscription without expiration date a far one.
extract_details_from_apple_transaction_Defaulted(T, m) ==
  CASE T = "NonConsumable" -> Ok([details |-> "NonConsumableDetails"])
    [] T = "Consumable" ->
         Ok([details |-> "ConsumableDetails", is_consumed |-> Unknown,
             quantity |-> IF m.quantity.some THEN m.quantity.v ELSE 1])
    [] T = "Subscription" ->
         Ok([details |-> "SubscriptionDetails",
             expiration_time |-> IF m.expires_date.some THEN m.expires_date.v ELSE 9999])

\* TypedProductId::extract_details_from_apple_transaction for T.
extract_details_from_apple_transaction(T, m) ==
  CASE T = "NonConsumable" -> Ok([details |-> "NonConsumableDetails"])
    [] T = "Consumable" ->
         Ok([details |-> "ConsumableDetails", is_consumed |-> Unknown,
             quantity |-> IF m.quantity.some THEN m.quantity.v ELSE 1])
    [] T = "Subscription" ->
         IF m.expires_date.some
         THEN Ok([details |-> "SubscriptionDetails", expiration_time |-> m.expires_date.v])
         ELSE Err("AppStoreServerApiInvalidResponse",
                  "subscription's transaction info did not contain expiration date")

\* `price * 1000` on i64.  When the product leaves the type, a build with
\* overflow checks panics and a build without them keeps the low 64 bits.
apple_price_micros(price, overflow_checks) ==
  LET product == i64_mul(price, 1000)
  IN IF product.overflow /\ overflow_checks
     THEN [ok |-> FALSE, err |-> "panic", detail |-> "attempt to multiply with overflow"]
     ELSE Ok(product.wrapped)

\* IapDetails::from_apple_transaction::<T>(m, include_price_info).
from_apple_transaction(T, m, include_price_info, utc_now, overflow_checks) ==
  LET tsd == extract_details_from_apple_transaction(T, m)
      micros == apple_price_micros(m.price.v, overflow_checks)
  IN IF include_price_info /\ ~m.price.some THEN
       Err("AppStoreServerApiInvalidResponse", "transaction did not contain price info")
     ELSE IF include_price_info /\ ~micros.ok THEN micros
     ELSE IF include_price_info /\ ~m.currency.some THEN
       Err("AppStoreServerApiInvalidResponse", "transaction did not contain currency info")
     ELSE IF ~tsd.ok THEN tsd
     ELSE Ok([cannonical_id |-> AppStoreTransactionId(m.original_transaction_id),
              is_active |-> AppleIsActive(m, utc_now),
              is_sandbox |-> (m.environment = "Sandbox"),
              is_finalized_by_client |-> Unknown,
              purchase_time |-> m.purchase_date,
              region_iso3166_alpha_3 |-> m.storefront,
              price_info |-> IF include_price_info
                             THEN Some([price_micros |-> micros.v,
                                        currency_iso_4217 |-> m.currency.v])
                             ELSE None,
              type_specific_details |-> tsd.v])

\* PriceInfo::from_google_in_app_product_model(p, region_code).
from_google_in_app_product_model(p, region_code) ==
  IF region_code \notin DOMAIN p.prices THEN
    Err("GooglePlayDeveloperApiInvalidResponse", "region code not found in product prices")
  ELSE LET details == p.prices[region_code]
           micros == parse_i64(details.price_micros)
       IN IF ~micros.some
          THEN Err("GooglePlayDeveloperApiInvalidResponse", "price micros could not be parsed")
          ELSE Ok([price_micros |-> micros.v, currency_iso_4217 |-> details.currency])

\* TypedProductId::extract_details_from_google_product_purchase for T.
extract_details_from_google_product_purchase(T, m) ==
  CASE T = "NonConsumable" -> Ok([details |-> "NonConsumableDetails"])
    [] T = "Consumable" ->
         Ok([details |-> "ConsumableDetails",
             is_consumed |-> Known(m.consumption_state = "Consumed"),
             quantity |-> IF m.quantity.some THEN m.quantity.v ELSE 1])
    [] T = "Subscription" -> [ok |-> FALSE, err |-> "panic", detail |-> "unreachable!()"]

\* IapDetails::from_google_product_purchase::<T>(purchase_id, m, p).
from_google_product_purchase(T, purchase_id, m, p) ==
  LET region == from_alpha2(m.region_code)
      price == IF p.some THEN from_google_in_app_product_model(p.v, m.region_code)
               ELSE Ok("none")
      tsd == extract_details_from_google_product_purchase(T, m)
  IN IF ~region.some THEN
       Err("GooglePlayDeveloperApiInvalidResponse", "invalid region code")
     ELSE IF ~price.ok THEN price
     ELSE IF ~tsd.ok THEN tsd
     ELSE Ok([cannonical_id |-> purchase_id,
              is_active |-> (m.purchase_state = "Purchased"),
              is_sandbox |-> (m.purchase_type = Some("Test")),
              is_finalized_by_client |-> Known(m.acknowledgement_state = "Acknowledged"),
              purchase_time |-> m.purchase_time_millis,
              region_iso3166_alpha_3 |-> region.v,
              price_info |-> IF p.some THEN Some(price.v) ELSE None,
              type_specific_details |-> tsd.v])

\* The subscription states under which an unexpired subscription is entitled.
ActiveSubscriptionStates ==
  {"SubscriptionStateActive", "SubscriptionStatePaused", "SubscriptionStateOnHold",
   "SubscriptionStateCanceled", "SubscriptionStateInGracePeriod"}

\* Variant that lets the state alone decide.
GoogleSubscriptionIsActive_StateOnly(m, clock) ==
  m.subscription_state \in ActiveSubscriptionStates

\* IapDetails::from_google_subscription_purchase, field is_active.  The
\* closure reads the clock once per line item it examines: clock[i] is the
\* reading taken for item i.
GoogleSubscriptionIsActive(m, clock) ==
  /\ m.subscription_state \in ActiveSubscriptionStates
  /\ \E i \in 1..Len(m.line_items) : m.line_items[i].expiry_time > clock[i]

\* Variant that takes the line item that expires first.
max_by_key_expiry_time_Earliest(line_items) ==
  IF line_items = <<>> THEN None
  ELSE LET first == CHOOSE i \in 1..Len(line_items) :
                      \A j \in 1..Len(line_items) :
                        line_items[i].expiry_time <= line_items[j].expiry_time
       IN Some(line_items[first])

\* Variant that takes the last line item whatever its expiry.
max_by_key_expiry_time_Last(line_items) ==
  IF line_items = <<>> THEN None ELSE Some(line_items[Len(line_items)])

\* Iterator::max_by_key(|li| li.expiry_time): the last of the maximal items.
max_by_key_expiry_time(line_items) ==
  IF line_items = <<>> THEN None
  ELSE LET best == CHOOSE i \in 1..Len(line_items) :
                     /\ \A j \in 1..Len(line_items) :
                          line_items[j].expiry_time <= line_items[i].expiry_time
                     /\ \A j \in (i + 1)..Len(line_items) :
                          line_items[j].expiry_time < line_items[i].expiry_time
       IN Some(line_items[best])

\* TypedProductId::extract_details_from_google_subscription_purchase for T.
extract_details_from_google_subscription_purchase(T, m) ==
  IF T # "Subscription" THEN [ok |-> FALSE, err |-> "panic", detail |-> "unreachable!()"]
  ELSE LET latest == max_by_key_expiry_time(m.line_items)
       IN IF ~latest.some
          THEN Err("GooglePlayDeveloperApiInvalidResponse",
                   "subscription did not have any line items")
          ELSE Ok([details |-> "SubscriptionDetails",
                   expiration_time |-> latest.v.expiry_time])

\* IapDetails::from_google_subscription_purchase::<T>(purchase_id, m, p).
from_google_subscription_purchase(T, purchase_id, m, p, clock) ==
  LET region == from_alpha2(m.region_code)
      price == IF p.some THEN from_google_in_app_product_model(p.v, m.region_code)
               ELSE Ok("none")
      tsd == extract_details_from_google_subscription_purchase(T, m)
  IN IF ~m.start_time.some THEN
       Err("GooglePlayDeveloperApiInvalidResponse", "subscription did not have a start time")
     ELSE IF ~region.some THEN
       Err("GooglePlayDeveloperApiInvalidResponse", "invalid region code")
     ELSE IF ~price.ok THEN price
     ELSE IF ~tsd.ok THEN tsd
     ELSE Ok([cannonical_id |-> purchase_id,
              is_active |-> GoogleSubscriptionIsActive(m, clock),
              is_sandbox |-> m.test_purchase.some,
              is_finalized_by_client |->
                CASE m.acknowledgement_state = "AcknowledgementStateAcknowledged" -> Known(TRUE)
                  [] m.acknowledgement_state = "AcknowledgementStatePending" -> Known(FALSE)
                  [] OTHER -> Unknown,
              purchase_time |-> m.start_time.v,
              region_iso3166_alpha_3 |-> region.v,
              price_info |-> IF p.some THEN Some(price.v) ELSE None,
              type_specific_details |-> tsd.v])

----------------------------------------------------------------------------
(* Datasources                                                             *)

\* One externally visible step of a call: a vendor callout with its
\* arguments, or a verification / decoding step with the payload it is on.
Call(name, args) == [call |-> name, args |-> args]
Steps(trace, payload) == [i \in 1..Len(trace) |-> Call(trace[i], <<payload>>)]

\* AppStoreServerApiDatasourceImpl::callout: `answer` is what the endpoint
\* does with the request (status "ok" carries the parsed body).
apple_callout(answer) ==
  IF answer.status = "ok" THEN Ok(answer.body)
  ELSE Err("AppStoreServerApiError", answer.status)

\* Variant that reports the error of the later (sandbox) callout when both fail.
callout_with_sandbox_fallback_LastError(production, sandbox, function_name) ==
  LET production_result == apple_callout(production)
      sandbox_result == apple_callout(sandbox)
      c1 == <<Call(function_name, <<"production">>)>>
      c2 == c1 \o <<Call(function_name, <<"sandbox">>)>>
  IN IF production_result.ok THEN [res |-> production_result, calls |-> c1]
     ELSE [res |-> sandbox_result, calls |-> c2]

\* AppStoreServerApiDatasourceImpl::callout_with_sandbox_fallback.
callout_with_sandbox_fallback(production, sandbox, function_name) ==
  LET production_result == apple_callout(production)
      sandbox_result == apple_callout(sandbox)
      c1 == <<Call(function_name, <<"production">>)>>
      c2 == c1 \o <<Call(function_name, <<"sandbox">>)>>
  IN IF production_result.ok THEN [res |-> production_result, calls |-> c1]
     ELSE IF sandbox_result.ok THEN [res |-> sandbox_result, calls |-> c2]
     ELSE [res |-> production_result, calls |-> c2]

\* AppStoreServerApiDatasourceImpl::get_transaction_info.
get_transaction_info(production, sandbox, expected_aud) ==
  LET response_wrapper ==
        callout_with_sandbox_fallback(production, sandbox, "GetTransactionInfo")
  IN IF ~response_wrapper.res.ok THEN response_wrapper
     ELSE LET parsed == validate_and_parse_apple_jws(
                          response_wrapper.res.v.signed_transaction_info,
                          expected_aud, "transaction")
          IN [res |-> parsed.res,
              calls |-> response_wrapper.calls
                          \o Steps(parsed.trace, "signedTransactionInfo")]

\* Variant that drops a renewal info that does not verify instead of failing.
apple_parse_notification_RenewalUnchecked(body, expected_aud) ==
  IF ~body.json_ok THEN
    [res |-> Err("AppStoreServerNotificationParseError", "wrapper"), calls |-> <<>>]
  ELSE
    LET outer == validate_and_parse_apple_jws(body.signed_payload, expected_aud,
                                              "notification")
        c1 == Steps(outer.trace, "signedPayload")
    IN IF ~outer.res.ok THEN [res |-> outer.res, calls |-> c1]
       ELSE
         LET decoded_payload == outer.res.v
             has_tx == decoded_payload.data.some
                         /\ decoded_payload.data.v.signed_transaction_info.some
             has_rn == decoded_payload.data.some
                         /\ decoded_payload.data.v.signed_renewal_info.some
             tx == validate_and_parse_apple_jws(
                     decoded_payload.data.v.signed_transaction_info.v,
                     expected_aud, "transaction")
             rn == validate_and_parse_apple_jws(
                     decoded_payload.data.v.signed_renewal_info.v,
                     expected_aud, "renewal")
             c2 == IF has_tx THEN c1 \o Steps(tx.trace, "signedTransactionInfo") ELSE c1
             c3 == IF has_rn THEN c2 \o Steps(rn.trace, "signedRenewalInfo") ELSE c2
         IN IF has_tx /\ ~tx.res.ok THEN [res |-> tx.res, calls |-> c2]
            ELSE [res |-> Ok([notification |-> decoded_payload,
                              transaction_info |-> IF has_tx THEN Some(tx.res.v) ELSE None,
                              renewal_info |-> IF has_rn /\ rn.res.ok THEN Some(rn.res.v)
                                               ELSE None]),
                  calls |-> c3]

\* AppStoreServerNotificationDatasourceImpl::parse_notification.  The value
\* returned is the triple (notification, transaction info, renewal info).
apple_parse_notification(body, expected_aud) ==
  IF ~body.json_ok THEN
    [res |-> Err("AppStoreServerNotificationParseError", "wrapper"), calls |-> <<>>]
  ELSE
    LET outer == validate_and_parse_apple_jws(body.signed_payload, expected_aud,
                                              "notification")
        c1 == Steps(outer.trace, "signedPayload")
    IN IF ~outer.res.ok THEN [res |-> outer.res, calls |-> c1]
       ELSE
         LET decoded_payload == outer.res.v
             has_tx == decoded_payload.data.some
                         /\ decoded_payload.data.v.signed_transaction_info.some
             has_rn == decoded_payload.data.some
                         /\ decoded_payload.data.v.signed_renewal_info.some
             tx == validate_and_parse_apple_jws(
                     decoded_payload.data.v.signed_transaction_info.v,
                     expected_aud, "transaction")
             rn == validate_and_parse_apple_jws(
                     decoded_payload.data.v.signed_renewal_info.v,
                     expected_aud, "renewal")
             c2 == IF has_tx THEN c1 \o Steps(tx.trace, "signedTransactionInfo") ELSE c1
             c3 == IF has_rn THEN c2 \o Steps(rn.trace, "signedRenewalInfo") ELSE c2
         IN IF has_tx /\ ~tx.res.ok THEN [res |-> tx.res, calls |-> c2]
            ELSE IF has_rn /\ ~rn.res.ok THEN [res |-> rn.res, calls |-> c3]
            ELSE [res |-> Ok([notification |-> decoded_payload,
                              transaction_info |-> IF has_tx THEN Some(tx.res.v) ELSE None,
                              renewal_info |-> IF has_rn THEN Some(rn.res.v) ELSE None]),
                  calls |-> c3]

\* Variant that decodes the body first and verifies the header last.
google_parse_notification_BodyFirst(authorization_header, body, expected_aud) ==
  LET verified == validate_google_header(authorization_header, expected_aud)
      c1 == <<Call("parse_pubsub_wrapper", <<>>)>>
      c2 == c1 \o <<Call("base64_decode", <<>>)>>
      c3 == c2 \o <<Call("parse_notification_struct", <<>>)>>
      c4 == c3 \o <<Call("validate_google_header", <<>>)>>
  IN IF ~body.wrapper.some THEN
       [res |-> Err("GoogleCloudRtdnNotificationParseError",
                    "Failed to parse Pub/Sub wrapper."), calls |-> c1]
     ELSE IF ~body.wrapper.v.data.base64_ok THEN
       [res |-> Err("GoogleCloudRtdnNotificationParseError",
                    "Failed to base64-decode notification struct."), calls |-> c2]
     ELSE IF ~body.wrapper.v.data.json.some THEN
       [res |-> Err("GoogleCloudRtdnNotificationParseError",
                    "Failed to parse notification struct."), calls |-> c3]
     ELSE IF ~verified.ok THEN [res |-> verified, calls |-> c4]
     ELSE [res |-> Ok([wrapper |-> body.wrapper.v,
                       notification |-> body.wrapper.v.data.json.v]),
           calls |-> c4]

\* GoogleCloudRtdnNotificationDatasourceImpl::parse_notification.  The value
\* returned is the pair (wrapper, notification).
google_parse_notification(authorization_header, body, expected_aud) ==
  LET verified == validate_google_header(authorization_header, expected_aud)
      c1 == <<Call("validate_google_header", <<>>)>>
      c2 == c1 \o <<Call("parse_pubsub_wrapper", <<>>)>>
      c3 == c2 \o <<Call("base64_decode", <<>>)>>
      c4 == c3 \o <<Call("parse_notification_struct", <<>>)>>
  IN IF ~verified.ok THEN [res |-> verified, calls |-> c1]
     ELSE IF ~body.wrapper.some THEN
       [res |-> Err("GoogleCloudRtdnNotificationParseError",
                    "Failed to parse Pub/Sub wrapper."), calls |-> c2]
     ELSE IF ~body.wrapper.v.data.base64_ok THEN
       [res |-> Err("GoogleCloudRtdnNotificationParseError",
                    "Failed to base64-decode notification struct."), calls |-> c3]
     ELSE IF ~body.wrapper.v.data.json.some THEN
       [res |-> Err("GoogleCloudRtdnNotificationParseError",
                    "Failed to parse notification struct."), calls |-> c4]
     ELSE [res |-> Ok([wrapper |-> body.wrapper.v,
                       notification |-> body.wrapper.v.data.json.v]),
           calls |-> c4]

\* GooglePlayDeveloperApiDatasourceImpl::callout.
google_callout(answer) ==
  IF answer.status = "ok" THEN Ok(answer.body)
  ELSE Err("GooglePlayDeveloperApiError", answer.status)

----------------------------------------------------------------------------
(* Notification normalizer: iap_repository_impl.rs, NotificationDetails    *)

\* Variant without the grace-period case of DidFailToRenew.
AppleExpiryChangedArm_NoGracePeriod(type, subtype) ==
  type \in {"DidRenew", "RefundReversed", "RenewalExtended"}

\* The Apple arms that read data and transaction info, by the tag they give.
AppleExpiryChangedArm(type, subtype) ==
  \/ type \in {"DidRenew", "RefundReversed", "RenewalExtended"}
  \/ type = "DidFailToRenew" /\ subtype = Some("GracePeriod")

\* Variant that also takes a price-increase notice as an end.
AppleEndedArm_WithPriceIncrease(type, subtype) ==
  type \in {"DidFailToRenew", "Expired", "GracePeriodExpired", "PriceIncrease"}

AppleEndedArm(type, subtype) ==
  type \in {"DidFailToRenew", "Expired", "GracePeriodExpired"}

\* Variant that looks at a voluntary subtype before the notification type.
AppleEndReason_SubtypeFirst(type, subtype) ==
  IF subtype = Some("Voluntary") THEN [reason |-> "Cancelled", details |-> None]
  ELSE IF type = "GracePeriodExpired" \/ subtype = Some("BillingRetry")
  THEN [reason |-> "FailedToRenew"]
  ELSE IF subtype = Some("PriceIncrease") THEN [reason |-> "DeclinedPriceIncrease"]
  ELSE [reason |-> "Unknown"]

AppleEndReason(type, subtype) ==
  IF type = "GracePeriodExpired" \/ subtype = Some("BillingRetry")
  THEN [reason |-> "FailedToRenew"]
  ELSE IF subtype = Some("Voluntary") THEN [reason |-> "Cancelled", details |-> None]
  ELSE IF subtype = Some("PriceIncrease") THEN [reason |-> "DeclinedPriceIncrease"]
  ELSE [reason |-> "Unknown"]

\* Variant that voids a consumable as if it were a subscription.
AppleVoidedArm_ConsumableAsSubscription(transaction_type) ==
  IF transaction_type = Some("NonConsumable") THEN "NonConsumableVoided"
  ELSE "SubscriptionEnded"

\* The arm of the match on the transaction type of a Refund or Revoke.
AppleVoidedArm(transaction_type) ==
  IF transaction_type = Some("NonConsumable") THEN "NonConsumableVoided"
  ELSE IF transaction_type = Some("Consumable") THEN "ConsumableVoided"
  ELSE "SubscriptionEnded"

\* Variant that reports missing data as a parse failure.
expected_data_missing_err_AsParseError(notification_type) ==
  Err("ParseError", <<"notification type", notification_type,
                      "did not contain expected data">>)

\* The error of an arm that needs data or transaction info and has none.
expected_data_missing_err(notification_type) ==
  Err("AppStoreServerApiInvalidResponse",
      <<"notification type", notification_type, "did not contain expected data">>)

\* NotificationDetails::from_apple_notification(notification, transaction_info).
from_apple_notification(notification, transaction_info, utc_now) ==
  LET type == notification.notification_type
      subtype == notification.subtype
      have == notification.data.some /\ transaction_info.some
      data == notification.data.v
      tx == transaction_info.v
      purchase_id == AppStoreTransactionId(tx.original_transaction_id)
      sub == from_apple_transaction("Subscription", tx, FALSE, utc_now, TRUE)
      non == from_apple_transaction("NonConsumable", tx, FALSE, utc_now, TRUE)
      con == from_apple_transaction("Consumable", tx, FALSE, utc_now, TRUE)
  IN CASE type = "Test" -> Ok([tag |-> "Test"])
       [] type = "Subscribed" ->
            IF ~have THEN expected_data_missing_err(type)
            ELSE IF ~sub.ok THEN sub
            ELSE Ok([tag |-> "SubscriptionStarted", application_id |-> data.bundle_id,
                     product_id |-> tx.product_id, purchase_id |-> purchase_id,
                     details |-> sub.v])
       [] type # "Subscribed" /\ type # "Test" /\ AppleExpiryChangedArm(type, subtype) ->
            IF ~have THEN expected_data_missing_err(type)
            ELSE IF ~sub.ok THEN sub
            ELSE Ok([tag |-> "SubscriptionExpiryChanged", application_id |-> data.bundle_id,
                     product_id |-> tx.product_id, purchase_id |-> purchase_id,
                     renewal_id |-> IF type = "DidRenew" THEN Some(tx.transaction_id)
                                    ELSE None,
                     details |-> sub.v])
       [] ~AppleExpiryChangedArm(type, subtype) /\ AppleEndedArm(type, subtype) ->
            IF ~have THEN expected_data_missing_err(type)
            ELSE IF ~sub.ok THEN sub
            ELSE Ok([tag |-> "SubscriptionEnded", application_id |-> data.bundle_id,
                     product_id |-> tx.product_id, purchase_id |-> purchase_id,
                     details |-> sub.v, reason |-> AppleEndReason(type, subtype)])
       [] type \in {"Refund", "Revoke"} ->
            IF ~have THEN expected_data_missing_err(type)
            ELSE IF AppleVoidedArm(tx.transaction_type) = "NonConsumableVoided" THEN
              IF ~non.ok THEN non
              ELSE Ok([tag |-> "NonConsumableVoided", application_id |-> data.bundle_id,
                       product_id |-> tx.product_id, purchase_id |-> purchase_id,
                       reason |-> Some(tx.revocation_reason), details |-> non.v,
                       is_refunded |-> (type = "Refund")])
            ELSE IF AppleVoidedArm(tx.transaction_type) = "ConsumableVoided" THEN
              IF ~con.ok THEN con
              ELSE Ok([tag |-> "ConsumableVoided", application_id |-> data.bundle_id,
                       product_id |-> tx.product_id, purchase_id |-> purchase_id,
                       reason |-> Some(tx.revocation_reason), details |-> con.v,
                       is_refunded |-> (type = "Refund")])
            ELSE
              IF ~sub.ok THEN sub
              ELSE Ok([tag |-> "SubscriptionEnded", application_id |-> data.bundle_id,
                       product_id |-> tx.product_id, purchase_id |-> purchase_id,
                       details |-> sub.v,
                       reason |-> [reason |-> "Voided", is_refunded |-> (type = "Refund")]])
       [] OTHER -> Ok([tag |-> "Other"])

\* Variant that takes the start of a pause and a change of the pause
\* schedule for the same event.
GoogleSubscriptionArm_PauseMerged(type) ==
  CASE type = "SubscriptionPurchased" -> "SubscriptionStarted"
    [] type \in {"SubscriptionRenewed", "SubscriptionRecovered",
                 "SubscriptionInGracePeriod", "SubscriptionDeferred"} ->
         "SubscriptionExpiryChanged"
    [] type \in {"SubscriptionExpired", "SubscriptionRevoked", "SubscriptionPaused",
                 "SubscriptionOnHold", "SubscriptionPauseScheduleChanged"} ->
         "SubscriptionEnded"
    [] type \in {"SubscriptionRestarted", "SubscriptionCanceled"} -> "Other"
    [] type \in {"SubscriptionPriceChangeConfirmed",
                 "SubscriptionPendingPurchaseCanceled"} -> "Other"

\* The arm of the match on the type of a Google subscription notification.
GoogleSubscriptionArm(type) ==
  CASE type = "SubscriptionPurchased" -> "SubscriptionStarted"
    [] type \in {"SubscriptionRenewed", "SubscriptionRecovered",
                 "SubscriptionInGracePeriod", "SubscriptionDeferred"} ->
         "SubscriptionExpiryChanged"
    [] type \in {"SubscriptionExpired", "SubscriptionRevoked", "SubscriptionPaused",
                 "SubscriptionOnHold"} ->
         "SubscriptionEnded"
    [] type \in {"SubscriptionRestarted", "SubscriptionCanceled"} -> "Other"
    [] type \in {"SubscriptionPriceChangeConfirmed", "SubscriptionPauseScheduleChanged",
                 "SubscriptionPendingPurchaseCanceled"} -> "Other"

\* Variant that looks for a cancellation by the user before one by the system.
GoogleEndReason_UserFirst(notification_type, api_data) ==
  LET csc == api_data.canceled_state_context
  IN IF notification_type = "SubscriptionPaused" THEN [reason |-> "Paused"]
     ELSE IF csc.some /\ csc.v.user_initiated_cancellation.some
       THEN [reason |-> "Cancelled", details |-> Some(csc.v.user_initiated_cancellation.v)]
     ELSE IF csc.some /\ csc.v.system_initiated_cancellation.some
       THEN [reason |-> "FailedToRenew"]
     ELSE [reason |-> "Unknown"]

\* The reason of a Google SubscriptionEnded notification.
GoogleEndReason(notification_type, api_data) ==
  LET csc == api_data.canceled_state_context
  IN IF notification_type = "SubscriptionPaused" THEN [reason |-> "Paused"]
     ELSE IF csc.some /\ csc.v.system_initiated_cancellation.some
       THEN [reason |-> "FailedToRenew"]
     ELSE IF csc.some /\ csc.v.user_initiated_cancellation.some
       THEN [reason |-> "Cancelled", details |-> Some(csc.v.user_initiated_cancellation.v)]
     ELSE [reason |-> "Unknown"]

\* Variant that names the product of the first line item.
subscription_product_id_First(api_data) == api_data.line_items[1].product_id

\* from_google_subscription_notification: api_data.line_items.last() product_id.
subscription_product_id(api_data) ==
  api_data.line_items[Len(api_data.line_items)].product_id

\* NotificationDetails::from_google_subscription_notification.  `answer` is
\* what purchases.subscriptionsv2.get does with the request.
from_google_subscription_notification(notification, application_id, answer, clock) ==
  LET fetched == google_callout(answer)
      log == <<Call("purchases.subscriptionsv2.get",
                    <<application_id, notification.purchase_token>>)>>
      api_data == fetched.v
      type == notification.notification_type
      purchase_id == GooglePlayPurchaseToken(notification.purchase_token)
      product_id == subscription_product_id(api_data)
      details == from_google_subscription_purchase("Subscription", purchase_id, api_data,
                                                   None, clock)
      res ==
        IF ~fetched.ok THEN fetched
        ELSE IF api_data.line_items = <<>> THEN
          Err("GooglePlayDeveloperApiInvalidResponse",
              "subscription did not have any line items")
        ELSE IF GoogleSubscriptionArm(type) = "SubscriptionStarted" THEN
          IF ~details.ok THEN details
          ELSE Ok([tag |-> "SubscriptionStarted", application_id |-> application_id,
                   product_id |-> product_id, purchase_id |-> purchase_id,
                   details |-> details.v])
        ELSE IF GoogleSubscriptionArm(type) = "SubscriptionExpiryChanged" THEN
          IF ~details.ok THEN details
          ELSE Ok([tag |-> "SubscriptionExpiryChanged", application_id |-> application_id,
                   product_id |-> product_id, purchase_id |-> purchase_id,
                   renewal_id |-> IF type \in {"SubscriptionRenewed", "SubscriptionRecovered"}
                                  THEN Some(api_data.latest_order_id) ELSE None,
                   details |-> details.v])
        ELSE IF GoogleSubscriptionArm(type) = "SubscriptionEnded" THEN
          IF ~details.ok THEN details
          ELSE Ok([tag |-> "SubscriptionEnded", application_id |-> application_id,
                   product_id |-> product_id, purchase_id |-> purchase_id,
                   details |-> details.v, reason |-> GoogleEndReason(type, api_data)])
        ELSE Ok([tag |-> "Other"])
  IN [res |-> res, calls |-> log]

\* Variant that fetches the subscription for every voided purchase.
voided_purchase_callouts_Always(notification, application_id) ==
  <<Call("purchases.subscriptionsv2.get",
         <<application_id, notification.purchase_token>>)>>

\* The vendor calls of from_google_voided_purchase_notification.
voided_purchase_callouts(notification, application_id) ==
  IF notification.product_type = "ProductTypeOneTime" THEN <<>>
  ELSE <<Call("purchases.subscriptionsv2.get",
              <<application_id, notification.purchase_token>>)>>

\* NotificationDetails::from_google_voided_purchase_notification.
from_google_voided_purchase_notification(notification, application_id, answer, clock) ==
  LET is_refunded == (notification.refund_type = "RefundTypeFullRefund")
      purchase_id == GooglePlayPurchaseToken(notification.purchase_token)
      fetched == google_callout(answer)
      m == fetched.v
      details == from_google_subscription_purchase("Subscription", purchase_id, m,
                                                   None, clock)
  IN IF notification.product_type = "ProductTypeOneTime" THEN
       [res |-> Ok([tag |-> "UnknownOneTimePurchaseVoided",
                    application_id |-> application_id, purchase_id |-> purchase_id,
                    is_refunded |-> is_refunded, reason |-> None]),
        calls |-> voided_purchase_callouts(notification, application_id)]
     ELSE
       [res |-> IF ~fetched.ok THEN fetched
                ELSE IF m.line_items = <<>> THEN
                  Err("GooglePlayDeveloperApiInvalidResponse",
                      "subscription did not have any line items")
                ELSE IF ~details.ok THEN details
                ELSE Ok([tag |-> "SubscriptionEnded", application_id |-> application_id,
                         product_id |-> m.line_items[Len(m.line_items)].product_id,
                         purchase_id |-> purchase_id, details |-> details.v,
                         reason |-> [reason |-> "Voided", is_refunded |-> is_refunded]]),
        calls |-> voided_purchase_callouts(notification, application_id)]

----------------------------------------------------------------------------
(* Facade: iap_repository_impl.rs, impl IapRepository for IapRepositoryImpl *)

\* The application id the instance was constructed with.
ApplicationId == "com.example.app"

NotActive == Err("NotActive", "In-app-purchase exists, but is not currently valid / active.")

\* Variant without the gate: the normalized details are returned as they are.
ActiveOrNotActive_Ungated(iap_details) == iap_details

\* The gate at the end of verify_and_get_details.
ActiveOrNotActive(iap_details) ==
  IF ~iap_details.ok THEN iap_details
  ELSE IF ~iap_details.v.is_active THEN NotActive
  ELSE iap_details

\* Variant that sends every product type to the one-time purchase endpoint.
GoogleEndpointOf_AlwaysProduct(T) == "purchases.products.get"

\* The endpoint verify_and_get_details asks about a Google token, by
\* T::product_type().
GoogleEndpointOf(T) ==
  IF T \in {"Consumable", "NonConsumable"} THEN "purchases.products.get"
  ELSE "purchases.subscriptionsv2.get"

\* Variant that asks for the product listing whenever the purchase was
\* fetched, requested or not.
product_purchase_callouts_AlwaysListed(sku, token, purchase_fetched, include_price_info) ==
  <<Call("purchases.products.get", <<ApplicationId, sku, token>>)>>
    \o IF purchase_fetched
       THEN <<Call("inappproducts.get", <<ApplicationId, sku>>)>>
       ELSE <<>>

\* The vendor calls of verify_and_get_details for a one-time Google
\* purchase: get_product_purchase, then get_in_app_product when the first
\* succeeded and price info is requested.
product_purchase_callouts(sku, token, purchase_fetched, include_price_info) ==
  <<Call("purchases.products.get", <<ApplicationId, sku, token>>)>>
    \o IF purchase_fetched /\ include_price_info
       THEN <<Call("inappproducts.get", <<ApplicationId, sku>>)>>
       ELSE <<>>

\* The match expression of verify_and_get_details that fetches and
\* normalizes (the value bound to iap_details, or the error returned by `?`).
\* `world` holds what each vendor endpoint answers.
fetch_iap_details(T, sku, purchase_id, include_price_info, world, utc_now, clock, overflow_checks) ==
  IF purchase_id.vendor = "AppStoreTransactionId" THEN
    LET m == get_transaction_info(world.production, world.sandbox, ExpectedAud)
    IN IF ~m.res.ok THEN m
       ELSE [res |-> from_apple_transaction(T, m.res.v, include_price_info, utc_now,
                                          overflow_checks),
             calls |-> m.calls]
  ELSE IF GoogleEndpointOf(T) = "purchases.products.get" THEN
    LET m == google_callout(world.product_purchase)
        p == google_callout(world.in_app_product)
        log == product_purchase_callouts(sku, purchase_id.id, m.ok, include_price_info)
    IN IF ~m.ok THEN [res |-> m, calls |-> log]
       ELSE IF include_price_info /\ ~p.ok THEN [res |-> p, calls |-> log]
       ELSE [res |-> from_google_product_purchase(T, purchase_id, m.v,
                       IF include_price_info THEN Some(p.v) ELSE None),
             calls |-> log]
  ELSE
    LET m == google_callout(world.subscription)
        c1 == <<Call("purchases.subscriptionsv2.get", <<ApplicationId, purchase_id.id>>)>>
    IN IF ~m.ok THEN [res |-> m, calls |-> c1]
       ELSE [res |-> from_google_subscription_purchase(T, purchase_id, m.v, None, clock),
             calls |-> c1]

\* IapRepositoryImpl::verify_and_get_details::<T>(product_id, purchase_id,
\* include_price_info).
verify_and_get_details(T, sku, purchase_id, include_price_info, world, utc_now, clock, overflow_checks) ==
  LET iap_details == fetch_iap_details(T, sku, purchase_id, include_price_info, world,
                                       utc_now, clock, overflow_checks)
  IN [res |-> ActiveOrNotActive(iap_details.res), calls |-> iap_details.calls]

\* Variant that asks the vendor and reports success whatever it answers.
consume_Swallowed(sku, purchase_id, world) ==
  IF purchase_id.vendor = "GooglePlayPurchaseToken" THEN
    [res |-> Ok("unit"),
     calls |-> <<Call("purchases.products.consume",
                      <<ApplicationId, sku, purchase_id.id>>)>>]
  ELSE [res |-> Ok("unit"), calls |-> <<>>]

\* IapRepositoryImpl::consume(product_id, purchase_id).
consume(sku, purchase_id, world) ==
  IF purchase_id.vendor = "GooglePlayPurchaseToken" THEN
    [res |-> google_callout(world.consume),
     calls |-> <<Call("purchases.products.consume",
                      <<ApplicationId, sku, purchase_id.id>>)>>]
  ELSE [res |-> Ok("unit"), calls |-> <<>>]

\* Variant that puts the details a notification embeds through the activity
\* gate of verify_and_get_details.
parse_apple_notification_Gated(body, utc_now) ==
  LET parsed == apple_parse_notification(body, ExpectedAud)
      notification == parsed.res.v.notification
      details == from_apple_notification(notification, parsed.res.v.transaction_info,
                                         utc_now)
      embeds == details.ok /\ "details" \in DOMAIN details.v
  IN IF ~parsed.res.ok THEN parsed
     ELSE [res |-> IF ~details.ok THEN details
                   ELSE IF embeds /\ ~details.v.details.is_active THEN NotActive
                   ELSE Ok([notification_id |-> notification.notification_uuid,
                            time |-> notification.signed_date,
                            details |-> details.v]),
           calls |-> parsed.calls]

\* IapRepositoryImpl::parse_apple_notification(body).
parse_apple_notification(body, utc_now) ==
  LET parsed == apple_parse_notification(body, ExpectedAud)
      notification == parsed.res.v.notification
      details == from_apple_notification(notification, parsed.res.v.transaction_info,
                                         utc_now)
  IN IF ~parsed.res.ok THEN parsed
     ELSE [res |-> IF ~details.ok THEN details
                   ELSE Ok([notification_id |-> notification.notification_uuid,
                            time |-> notification.signed_date,
                            details |-> details.v]),
           calls |-> parsed.calls]

\* Variant that looks at the voided purchase before the subscription.
GooglePayloadTaken_VoidedFirst(notification) ==
  IF notification.test_notification.some THEN "test_notification"
  ELSE IF notification.voided_purchase_notification.some
  THEN "voided_purchase_notification"
  ELSE IF notification.subscription_notification.some THEN "subscription_notification"
  ELSE IF notification.one_time_product_notification.some
  THEN "one_time_product_notification"
  ELSE "none"

\* The payload the if-let chain of parse_google_notification takes.
GooglePayloadTaken(notification) ==
  IF notification.test_notification.some THEN "test_notification"
  ELSE IF notification.subscription_notification.some THEN "subscription_notification"
  ELSE IF notification.voided_purchase_notification.some
  THEN "voided_purchase_notification"
  ELSE IF notification.one_time_product_notification.some
  THEN "one_time_product_notification"
  ELSE "none"

\* IapRepositoryImpl::parse_google_notification(authorization_header, body).
parse_google_notification(authorization_header, body, world, clock) ==
  LET parsed == google_parse_notification(authorization_header, body, ExpectedAud)
      wrapper == parsed.res.v.wrapper
      notification == parsed.res.v.notification
      application_id == notification.package_name
      sub == from_google_subscription_notification(
               notification.subscription_notification.v, application_id,
               world.subscription, clock)
      voided == from_google_voided_purchase_notification(
                  notification.voided_purchase_notification.v, application_id,
                  world.subscription, clock)
      payload == GooglePayloadTaken(notification)
      details ==
        IF payload = "test_notification" THEN
          [res |-> Ok([tag |-> "Test"]), calls |-> <<>>]
        ELSE IF payload = "subscription_notification" THEN sub
        ELSE IF payload = "voided_purchase_notification" THEN voided
        ELSE IF payload = "one_time_product_notification" THEN
          [res |-> Ok([tag |-> "Other"]), calls |-> <<>>]
        ELSE [res |-> Err("GoogleCloudRtdnNotificationParseError",
                          "notification did not have one of the recognized types"),
              calls |-> <<>>]
  IN IF ~parsed.res.ok THEN parsed
     ELSE [res |-> IF ~details.res.ok THEN details.res
                   ELSE Ok([notification_id |-> wrapper.message_id,
                            time |-> notification.event_time_millis,
                            details |-> details.res.v]),
           calls |-> parsed.calls \o details.calls]

\* AppStoreServerApiDatasourceImpl::request_test_notification(sandbox), which
\* IapRepositoryImpl::request_apple_test_notification forwards to.
\* Variant that requests the test notification with the sandbox fallback.
request_test_notification_WithFallback(sandbox, world) ==
  LET fetched == callout_with_sandbox_fallback(world.production, world.sandbox,
                                               "RequestTestNotification")
  IN [res |-> IF fetched.res.ok THEN Ok(fetched.res.v.test_notification_token)
              ELSE fetched.res,
      calls |-> fetched.calls]

request_test_notification(sandbox, world) ==
  LET answer == IF sandbox THEN world.sandbox ELSE world.production
      response == apple_callout(answer)
  IN [res |-> IF response.ok THEN Ok(response.v.test_notification_token) ELSE response,
      calls |-> <<Call("RequestTestNotification",
                       <<IF sandbox THEN "sandbox" ELSE "production">>)>>]

----------------------------------------------------------------------------
(* Inputs: the arguments of the calls and the answers of the vendors       *)

\* What an endpoint can do with a request other than answer it.
CalloutFailures ==
  {"callout failed to send", "callout returned with 404 status code",
   "failed to parse callout response"}
Failed(f) == [status |-> f]
Answered(body) == [status |-> "ok", body |-> body]
NotCalled == [status |-> "not called"]

BaseTransaction ==
  [kind |-> "transaction", original_transaction_id |-> "original-1",
   transaction_id |-> "transaction-2", product_id |-> "sku1",
   revocation_date |-> None, revocation_reason |-> None, expires_date |-> None,
   environment |-> "Production", purchase_date |-> 0, storefront |-> "USA",
   price |-> None, currency |-> None, quantity |-> None,
   transaction_type |-> Some("AutoRenewableSubscription")]

\* Prices in thousandths of a unit: 4.99, and 2^56, whose thousandfold does
\* not fit an i64.
ApplePrices == {I64(4990), <<0, 0, 0, 256>>}

\* Whether the build checks integer overflow (a debug build does, a release
\* build does not by default); it matters only where prices are computed.
BuildProfiles(include_price_info) == IF include_price_info THEN BOOLEAN ELSE {TRUE}

\* Transactions GetTransactionInfo can return.
ApiTransactions ==
  {[BaseTransaction EXCEPT !.revocation_date = rd, !.revocation_reason = rr,
                           !.expires_date = ex, !.price = pr, !.currency = cu,
                           !.quantity = qu, !.environment = en] :
     rd \in Opt({1}), rr \in Opt({"Issue"}), ex \in Opt(Times), pr \in Opt(ApplePrices),
     cu \in Opt({"USD"}), qu \in Opt({3}), en \in {"Production", "Sandbox"}}

TransactionTypes ==
  {"AutoRenewableSubscription", "NonConsumable", "Consumable",
   "NonRenewableSubscription", "Unknown"}

\* Transactions a notification can carry.
NotifiedTransactions ==
  {[BaseTransaction EXCEPT !.revocation_date = rd, !.revocation_reason = rr,
                           !.expires_date = ex, !.transaction_type = ty] :
     rd \in Opt({1}), rr \in Opt({"Issue"}), ex \in Opt(Times),
     ty \in Opt(TransactionTypes)}

BaseRenewalInfo == [kind |-> "renewal", auto_renew_status |-> 1]

\* A JWS that Apple signed for this audience, and the ways one can be off.
SignedByApple(payload) ==
  [header_ok |-> TRUE, x5c |-> Some(<<"leafWwdr">>), alg |-> "ES256",
   signer |-> "leafWwdr", tampered |-> FALSE, aud |-> AudOne(ExpectedAud),
   payload |-> payload]

NotFromApple(payload) ==
  LET good == SignedByApple(payload)
  IN {[good EXCEPT !.x5c = Some(<<"leafEvil", "rootEvil">>), !.signer = "leafEvil"],
      [good EXCEPT !.tampered = TRUE],
      [good EXCEPT !.x5c = Some(<<>>)],
      [good EXCEPT !.x5c = None],
      [good EXCEPT !.aud = AudOne("aud.other")],
      [good EXCEPT !.payload = [kind |-> "garbage"]]}

AppleAudValues ==
  {AudAbsent} \cup {AudOne(a) : a \in Audiences}
    \cup {AudMany(sq) : sq \in SeqsUpTo(Audiences, MaxAud)}

\* Every JWS the verifier is tried on.
AppleJwsSet ==
  {[header_ok |-> TRUE, x5c |-> x, alg |-> "ES256", signer |-> k, tampered |-> t,
    aud |-> a, payload |-> pl] :
     x \in Opt(SeqsUpTo(CertNames, MaxChain)), k \in Keys, t \in BOOLEAN,
     a \in AppleAudValues, pl \in {BaseTransaction, [kind |-> "garbage"]}}
    \cup {[j EXCEPT !.header_ok = FALSE] :
            j \in {SignedByApple(BaseTransaction)} \cup NotFromApple(BaseTransaction)}
  \cup {[SignedByApple(BaseTransaction) EXCEPT !.header_ok = FALSE],
        [SignedByApple(BaseTransaction) EXCEPT !.alg = "RS256"]}

GoogleAudValues ==
  {AudOne(a) : a \in Audiences} \cup {AudMany(sq) : sq \in SeqsUpTo(Audiences, MaxAud)}

Bearer == [w |-> "Bearer", sig |-> "none", aud |-> AudMany(<<>>)]
GoogleTokens ==
  {[w |-> "jwt", sig |-> sg, aud |-> a] :
     sg \in {"ok", "bad signature", "expired", "jwks unavailable"}, a \in GoogleAudValues}
  \cup {[w |-> "junk", sig |-> "none", aud |-> AudMany(<<>>)]}

\* Every Authorization header the verifier is tried on.
GoogleHeaders ==
  {<<>>, <<Bearer>>}
    \cup {<<t>> : t \in GoogleTokens}
    \cup {<<Bearer, t>> : t \in GoogleTokens}
    \cup {<<Bearer, Bearer, t>> : t \in GoogleTokens}
    \cup {<<t, Bearer>> : t \in GoogleTokens}

SignedByGoogle == <<Bearer, [w |-> "jwt", sig |-> "ok", aud |-> AudOne(ExpectedAud)]>>
NotFromGoogle ==
  {<<Bearer, [w |-> "jwt", sig |-> "bad signature", aud |-> AudOne(ExpectedAud)]>>,
   <<Bearer, [w |-> "jwt", sig |-> "ok", aud |-> AudOne("aud.other")]>>}

\* Readings of the clock during one call: n readings, none earlier than
\* the one before, the first not earlier than `from`.
ClockReadings(n, from) ==
  {c \in [1..n -> from..MaxTime] : \A i \in 1..(n - 1) : c[i] <= c[i + 1]}
LastReading(clock, from) == IF clock = <<>> THEN from ELSE clock[Len(clock)]

Skus == {"sku1", "sku2"}

BaseProductPurchase ==
  [purchase_time_millis |-> 0, purchase_state |-> "Purchased",
   consumption_state |-> "YetToBeConsumed", purchase_type |-> None,
   acknowledgement_state |-> "Acknowledged", quantity |-> None, region_code |-> "US"]

ProductPurchases ==
  {[BaseProductPurchase EXCEPT !.purchase_state = ps, !.consumption_state = cs,
                               !.purchase_type = pt, !.acknowledgement_state = ak,
                               !.quantity = qu, !.region_code = rc] :
     ps \in {"Purchased", "Canceled", "Pending"},
     cs \in {"YetToBeConsumed", "Consumed"}, pt \in Opt({"Test"}),
     ak \in {"YetToBeAcknowledged", "Acknowledged"}, qu \in Opt({3}),
     rc \in {"US", "NL", "ZZ"}}

InAppProducts ==
  {[prices |-> [r \in {"US"} |-> [price_micros |-> "1990000", currency |-> "USD"]]],
   [prices |-> [r \in {"US", "NL"} |-> [price_micros |-> "1990000", currency |-> "USD"]]],
   [prices |-> [r \in {"US"} |-> [price_micros |-> "1.99", currency |-> "USD"]]],
   [prices |-> [r \in {} |-> [price_micros |-> "1990000", currency |-> "USD"]]]}

SubscriptionStates ==
  {"SubscriptionStateUnspecified", "SubscriptionStatePending", "SubscriptionStateActive",
   "SubscriptionStatePaused", "SubscriptionStateInGracePeriod", "SubscriptionStateOnHold",
   "SubscriptionStateCanceled", "SubscriptionStateExpired",
   "SubscriptionStatePendingPurchaseCanceled", "Unknown"}

LineItems(skus) == [expiry_time : Times, product_id : skus]

BaseSubscription ==
  [subscription_state |-> "SubscriptionStateActive", line_items |-> <<>>,
   start_time |-> Some(0), region_code |-> "US", latest_order_id |-> "order-9",
   acknowledgement_state |-> "AcknowledgementStateAcknowledged", test_purchase |-> None,
   canceled_state_context |-> None]

\* Subscriptions purchases.subscriptionsv2.get can return to a verification.
ApiSubscriptions ==
  {[BaseSubscription EXCEPT !.subscription_state = st, !.line_items = li,
                            !.start_time = sta, !.region_code = rc] :
     st \in SubscriptionStates, li \in SeqsUpTo(LineItems({"sku1"}), MaxItems),
     sta \in Opt({0}), rc \in {"US", "ZZ"}}

\* What an Apple endpoint answers to GetTransactionInfo.
TransactionInfoResponses ==
  {[signed_transaction_info |-> j] :
     j \in {SignedByApple(m) : m \in ApiTransactions} \cup NotFromApple(BaseTransaction)}

\* What the sandbox endpoint holds for a transaction production knows.
SandboxTransactionInfo ==
  {Failed("callout returned with 404 status code"),
   Answered([signed_transaction_info |->
               SignedByApple([BaseTransaction EXCEPT !.environment = "Sandbox",
                                                     !.transaction_id = "transaction-3"])])}

\* The two Apple environments: what production and what sandbox answer to
\* the same request (`others`: sandbox's answers where production answers).
AppleWorlds(responses, others) ==
  {[production |-> Answered(r), sandbox |-> s] : r \in responses, s \in others}
    \cup {[production |-> Failed(f), sandbox |-> Answered(r)] :
            f \in CalloutFailures, r \in responses}
    \cup {[production |-> Failed(f), sandbox |-> Failed(g)] :
            f \in CalloutFailures, g \in CalloutFailures}

GoogleAnswers(bodies) == {Failed(f) : f \in CalloutFailures} \cup {Answered(b) : b \in bodies}

GoogleProductWorlds(include_price_info) ==
  {[product_purchase |-> a, in_app_product |-> NotCalled, subscription |-> NotCalled] :
     a \in IF include_price_info THEN {Failed(f) : f \in CalloutFailures}
           ELSE GoogleAnswers(ProductPurchases)}
    \cup {[product_purchase |-> Answered(m), in_app_product |-> b,
           subscription |-> NotCalled] :
            m \in IF include_price_info THEN ProductPurchases ELSE {},
            b \in GoogleAnswers(InAppProducts)}

GoogleSubscriptionWorlds(subscriptions) ==
  {[product_purchase |-> NotCalled, in_app_product |-> NotCalled, subscription |-> a] :
     a \in GoogleAnswers(subscriptions)}

\* The number of line items of the subscription an answer carries.
ItemsIn(answer) == IF answer.status = "ok" THEN Len(answer.body.line_items) ELSE 0

\* App Store Server Notifications V2 payloads.
AppleNotificationTypes ==
  {"Subscribed", "DidChangeRenewalPref", "DidChangeRenewalStatus", "OfferRedeemed",
   "DidRenew", "Expired", "DidFailToRenew", "GracePeriodExpired", "PriceIncrease",
   "Refund", "RefundDeclined", "RefundReversed", "RenewalExtended", "RenewalExtension",
   "Revoke", "Test", "ExternalPurchaseToken", "OneTimeCharge", "ConsumptionRequest",
   "Unknown"}
AppleNotificationSubtypes ==
  {"InitialBuy", "Voluntary", "BillingRetry", "PriceIncrease", "GracePeriod"}

\* The data object of a notification: any transaction info alone, renewal
\* info beside the plain cases, and each way a renewal info can be off.
AppleNotificationData ==
  LET tx_infos == {SignedByApple(m) : m \in NotifiedTransactions}
                    \cup NotFromApple(BaseTransaction)
      good_tx == SignedByApple(BaseTransaction)
      good_rn == SignedByApple(BaseRenewalInfo)
  IN {[bundle_id |-> "com.example.bundle", signed_transaction_info |-> t,
       signed_renewal_info |-> None] : t \in Opt(tx_infos)}
     \cup {[bundle_id |-> "com.example.bundle", signed_transaction_info |-> t,
            signed_renewal_info |-> Some(r)] :
             t \in {None, Some(good_tx)},
             r \in {good_rn} \cup NotFromApple(BaseRenewalInfo)}

AppleNotifications ==
  {[kind |-> "notification", notification_type |-> ty, subtype |-> st, data |-> d,
    signed_date |-> 1, notification_uuid |-> "uuid-1"] :
     ty \in AppleNotificationTypes, st \in Opt(AppleNotificationSubtypes),
     d \in Opt(AppleNotificationData)}

BaseAppleNotification ==
  [kind |-> "notification", notification_type |-> "DidRenew", subtype |-> None,
   data |-> Some([bundle_id |-> "com.example.bundle",
                  signed_transaction_info |-> Some(SignedByApple(BaseTransaction)),
                  signed_renewal_info |-> Some(SignedByApple(BaseRenewalInfo))]),
   signed_date |-> 1, notification_uuid |-> "uuid-1"]

\* Raw webhook bodies handed to parse_apple_notification.
AppleBodies ==
  {[json_ok |-> FALSE, signed_payload |-> SignedByApple(BaseAppleNotification)]}
    \cup {[json_ok |-> TRUE, signed_payload |-> j] :
            j \in {SignedByApple(n) : n \in AppleNotifications}
                    \cup NotFromApple(BaseAppleNotification)}

\* Google RTDN payloads.
SubscriptionNotificationTypes ==
  {"SubscriptionRecovered", "SubscriptionRenewed", "SubscriptionCanceled",
   "SubscriptionPurchased", "SubscriptionOnHold", "SubscriptionInGracePeriod",
   "SubscriptionRestarted", "SubscriptionPriceChangeConfirmed", "SubscriptionDeferred",
   "SubscriptionPaused", "SubscriptionPauseScheduleChanged", "SubscriptionRevoked",
   "SubscriptionExpired", "SubscriptionPendingPurchaseCanceled"}

SubscriptionNotification(type) ==
  [notification_type |-> type, purchase_token |-> "token-sub"]
VoidedPurchaseNotification(product_type, refund_type) ==
  [purchase_token |-> "token-voided", product_type |-> product_type,
   refund_type |-> refund_type]

DeveloperNotification(test, sub, voided, one_time) ==
  [package_name |-> "com.example.notified", event_time_millis |-> 1,
   test_notification |-> test, subscription_notification |-> sub,
   voided_purchase_notification |-> voided, one_time_product_notification |-> one_time]

\* Every combination of the four optional payloads, every subscription
\* notification type, every kind of voided purchase.
GoogleNotifications ==
  {DeveloperNotification(t, sb, v, o) :
     t \in Opt({"test"}),
     sb \in Opt({SubscriptionNotification("SubscriptionRenewed")}),
     v \in Opt({VoidedPurchaseNotification("ProductTypeOneTime", "RefundTypeFullRefund")}),
     o \in Opt({"one-time"})}
  \cup {DeveloperNotification(None, Some(SubscriptionNotification(ty)), None, None) :
          ty \in SubscriptionNotificationTypes}
  \cup {DeveloperNotification(None, None, Some(VoidedPurchaseNotification(pt, rt)), None) :
          pt \in {"ProductTypeSubscription", "ProductTypeOneTime"},
          rt \in {"RefundTypeFullRefund", "RefundTypeQuantityBasedPartialRefund"}}

\* Raw Pub/Sub bodies handed to parse_google_notification.
GoogleBodies ==
  {[wrapper |-> None],
   [wrapper |-> Some([message_id |-> "message-1",
                      data |-> [base64_ok |-> FALSE, json |-> None]])],
   [wrapper |-> Some([message_id |-> "message-1",
                      data |-> [base64_ok |-> TRUE, json |-> None]])]}
  \cup {[wrapper |-> Some([message_id |-> "message-1",
                           data |-> [base64_ok |-> TRUE, json |-> Some(n)]])] :
          n \in GoogleNotifications}

CanceledStateContexts ==
  {[system_initiated_cancellation |-> sy, user_initiated_cancellation |-> us,
    developer_initiated_cancellation |-> None, replacement_cancellation |-> None] :
     sy \in Opt({"system"}), us \in Opt({"user canceled at 1"})}
  \cup {[system_initiated_cancellation |-> None, user_initiated_cancellation |-> None,
         developer_initiated_cancellation |-> de, replacement_cancellation |-> re] :
          de \in Opt({"developer"}), re \in Opt({"replacement"})}

\* Subscriptions purchases.subscriptionsv2.get can return to a notification.
NotifiedSubscriptions ==
  {[BaseSubscription EXCEPT !.subscription_state = st, !.line_items = li] :
     st \in {"SubscriptionStateActive", "SubscriptionStateCanceled",
             "SubscriptionStateExpired"},
     li \in SeqsUpTo(LineItems(Skus), MaxItems)}
  \cup {[BaseSubscription EXCEPT !.subscription_state = "SubscriptionStateExpired",
                                 !.line_items = <<[expiry_time |-> 0, product_id |-> "sku1"]>>,
                                 !.canceled_state_context = c] :
          c \in Opt(CanceledStateContexts)}
  \cup {[BaseSubscription EXCEPT !.line_items = <<[expiry_time |-> MaxTime,
                                                   product_id |-> "sku1"]>>,
                                 !.start_time = sta, !.region_code = rc] :
          sta \in Opt({0}), rc \in {"US", "ZZ"}}

\* Whether a body, once parsed, asks for the subscription to be fetched.
FetchesSubscription(body) ==
  /\ body.wrapper.some
  /\ body.wrapper.v.data.json.some
  /\ LET n == body.wrapper.v.data.json.v
     IN /\ ~n.test_notification.some
        /\ \/ n.subscription_notification.some
           \/ /\ n.voided_purchase_notification.some
              /\ n.voided_purchase_notification.v.product_type = "ProductTypeSubscription"

----------------------------------------------------------------------------
(* State machine                                                           *)

Idle == [ok |-> TRUE, v |-> "idle"]

\* Threads that can be inside validate_and_parse_apple_jws at the same time.
Verifiers == {"v1", "v2"}
Resting == [pc |-> "idle", jws |-> None, res |-> Idle]

\* Lifetime of the App Store Connect token: the ten minutes of
\* build_jwt_token, as one step of the clock.
JwtLifetime == 1

\* AppStoreServerApiDatasourceImpl::build_jwt_token at time `utc_now`.
build_jwt_token(utc_now) ==
  [iat |-> utc_now, exp |-> utc_now + JwtLifetime, aud |-> "appstoreconnect-v1"]

\* The Authorization header AppStoreServerApiDatasourceImpl::callout sends.
authorization_header == [scheme |-> "Bearer", token |-> jwt_token]

\* The call uses the trust store: it got as far as the store in at least one
\* of its verifications.
ForcesStore(cs) ==
  \E i \in DOMAIN cs : cs[i].call \in {"verify_cert", "trust_store"}

Init ==
  /\ now = 0
  /\ pc = "idle"
  /\ op = "none"
  /\ input = [none |-> TRUE]
  /\ result = Idle
  /\ calls = <<>>
  /\ APPLE_TRUST_STORE = LazyUninit
  /\ trust_store_loads = 0
  /\ verifiers = [v \in Verifiers |-> Resting]
  /\ jwt_token = build_jwt_token(0)

\* Time passes between calls.
Tick ==
  /\ pc = "idle"
  /\ now < MaxTime
  /\ now' = now + 1
  /\ UNCHANGED <<pc, op, input, result, calls>>
  /\ UNCHANGED <<APPLE_TRUST_STORE, trust_store_loads, verifiers, jwt_token>>

\* The caller takes the result; the instance keeps nothing of the call.
Return ==
  /\ pc = "done"
  /\ pc' = "idle"
  /\ op' = "none"
  /\ input' = [none |-> TRUE]
  /\ result' = Idle
  /\ calls' = <<>>
  /\ UNCHANGED now
  /\ UNCHANGED <<APPLE_TRUST_STORE, trust_store_loads, verifiers, jwt_token>>

Finish(name, in, out, time) ==
  /\ pc' = "done"
  /\ op' = name
  /\ input' = in
  /\ result' = out.res
  /\ calls' = out.calls
  /\ now' = time
  /\ ForcesStore(out.calls) => APPLE_TRUST_STORE.state # "running"
  /\ IF ForcesStore(out.calls) /\ APPLE_TRUST_STORE.state = "uninit"
     THEN /\ APPLE_TRUST_STORE' = LazyInit(LazyForce(APPLE_TRUST_STORE))
          /\ trust_store_loads' = trust_store_loads + 1
     ELSE UNCHANGED <<APPLE_TRUST_STORE, trust_store_loads>>
  /\ UNCHANGED <<verifiers, jwt_token>>

\* verify_and_get_details on an Apple transaction id.
VerifyApple ==
  /\ pc = "idle"
  /\ \E T \in ProductTypes, include_price_info \in BOOLEAN,
        world \in AppleWorlds(TransactionInfoResponses, SandboxTransactionInfo) :
       \E overflow_checks \in BuildProfiles(include_price_info) :
         LET purchase_id == AppStoreTransactionId("original-1")
         IN Finish("verify_and_get_details",
                   [T |-> T, sku |-> "sku1", purchase_id |-> purchase_id,
                    include_price_info |-> include_price_info, world |-> world,
                    clock |-> <<now>>, overflow_checks |-> overflow_checks],
                   verify_and_get_details(T, "sku1", purchase_id, include_price_info,
                                          world, now, <<>>, overflow_checks),
                   now)

\* verify_and_get_details on a Google purchase token, one-time product.
VerifyGoogleProduct ==
  /\ pc = "idle"
  /\ \E T \in {"Consumable", "NonConsumable"}, include_price_info \in BOOLEAN :
       \E world \in GoogleProductWorlds(include_price_info) :
         LET purchase_id == GooglePlayPurchaseToken("token-1")
         IN Finish("verify_and_get_details",
                   [T |-> T, sku |-> "sku1", purchase_id |-> purchase_id,
                    include_price_info |-> include_price_info, world |-> world,
                    clock |-> <<>>, overflow_checks |-> TRUE],
                   verify_and_get_details(T, "sku1", purchase_id, include_price_info,
                                          world, now, <<>>, TRUE),
                   now)

\* verify_and_get_details on a Google purchase token, subscription.
VerifyGoogleSubscription ==
  /\ pc = "idle"
  /\ \E include_price_info \in BOOLEAN, world \in GoogleSubscriptionWorlds(ApiSubscriptions) :
       \E clock \in ClockReadings(ItemsIn(world.subscription), now) :
         LET purchase_id == GooglePlayPurchaseToken("token-1")
         IN Finish("verify_and_get_details",
                   [T |-> "Subscription", sku |-> "sku1", purchase_id |-> purchase_id,
                    include_price_info |-> include_price_info, world |-> world,
                    clock |-> clock, overflow_checks |-> TRUE],
                   verify_and_get_details("Subscription", "sku1", purchase_id,
                                          include_price_info, world, now, clock, TRUE),
                   LastReading(clock, now))

\* validate_and_parse_apple_jws on its own.
ValidateAppleJws ==
  /\ pc = "idle"
  /\ \E jws \in AppleJwsSet :
       LET out == validate_and_parse_apple_jws(jws, ExpectedAud, "transaction")
       IN Finish("validate_and_parse_apple_jws", [jws |-> jws],
                 [res |-> out.res, calls |-> Steps(out.trace, "jws")], now)

\* The signed payloads the concurrent verifications are given.
ConcurrentJws == {SignedByApple(BaseTransaction)} \cup NotFromApple(BaseTransaction)

\* A thread enters validate_and_parse_apple_jws and runs it up to the trust
\* store; a payload that fails before the store is answered at once.
StartVerification ==
  /\ \E v \in Verifiers, jws \in ConcurrentJws :
       /\ verifiers[v].pc = "idle"
       /\ verifiers' =
            [verifiers EXCEPT ![v] =
               IF ReachesTrustStore(jws)
               THEN [pc |-> "at_store", jws |-> Some(jws), res |-> Idle]
               ELSE [pc |-> "done", jws |-> Some(jws),
                     res |-> validate_and_parse_apple_jws(jws, ExpectedAud,
                                                          "transaction").res]]
  /\ UNCHANGED <<APPLE_TRUST_STORE, trust_store_loads>>
  /\ UNCHANGED <<now, pc, op, input, result, calls, jwt_token>>

\* APPLE_TRUST_STORE.as_ref() by the thread that gets to run the initializer.
ClaimTrustStore ==
  /\ \E v \in Verifiers :
       /\ verifiers[v].pc = "at_store"
       /\ LazyClaimable(APPLE_TRUST_STORE)
       /\ APPLE_TRUST_STORE' = LazyRunning
       /\ verifiers' = [verifiers EXCEPT ![v].pc = "loading"]
  /\ UNCHANGED trust_store_loads
  /\ UNCHANGED <<now, pc, op, input, result, calls, jwt_token>>

\* The initializer of APPLE_TRUST_STORE ends and its value is stored.
LoadTrustStore ==
  /\ \E v \in Verifiers, loaded \in TrustStoreLoads :
       /\ verifiers[v].pc = "loading"
       /\ APPLE_TRUST_STORE' = LazyInit(loaded)
       /\ trust_store_loads' = trust_store_loads + 1
       /\ verifiers' = [verifiers EXCEPT ![v].pc = "verifying"]
  /\ UNCHANGED <<now, pc, op, input, result, calls, jwt_token>>

\* APPLE_TRUST_STORE.as_ref() by a thread that finds the cell filled.
ReadTrustStore ==
  /\ \E v \in Verifiers :
       /\ verifiers[v].pc = "at_store"
       /\ APPLE_TRUST_STORE.state = "init"
       /\ verifiers' = [verifiers EXCEPT ![v].pc = "verifying"]
  /\ UNCHANGED <<APPLE_TRUST_STORE, trust_store_loads>>
  /\ UNCHANGED <<now, pc, op, input, result, calls, jwt_token>>

\* The rest of validate_and_parse_apple_jws, from the map_err on the store.
FinishVerification ==
  /\ \E v \in Verifiers :
       /\ verifiers[v].pc = "verifying"
       /\ verifiers' =
            [verifiers EXCEPT ![v].pc = "done",
               ![v].res = validate_and_parse_apple_jws(verifiers[v].jws.v, ExpectedAud,
                                                       "transaction").res]
  /\ UNCHANGED <<APPLE_TRUST_STORE, trust_store_loads>>
  /\ UNCHANGED <<now, pc, op, input, result, calls, jwt_token>>

\* The caller of a finished verification takes its result.
TakeVerification ==
  /\ \E v \in Verifiers :
       /\ verifiers[v].pc = "done"
       /\ verifiers' = [verifiers EXCEPT ![v] = Resting]
  /\ UNCHANGED <<APPLE_TRUST_STORE, trust_store_loads>>
  /\ UNCHANGED <<now, pc, op, input, result, calls, jwt_token>>

\* validate_google_header on its own.
ValidateGoogleHeader ==
  /\ pc = "idle"
  /\ \E header \in GoogleHeaders :
       Finish("validate_google_header", [authorization_header |-> header],
              [res |-> validate_google_header(header, ExpectedAud), calls |-> <<>>], now)

\* AppStoreServerApiDatasource::get_transaction_info on its own.
GetTransactionInfo ==
  /\ pc = "idle"
  /\ \E world \in AppleWorlds(TransactionInfoResponses, SandboxTransactionInfo) :
       Finish("get_transaction_info", [world |-> world],
              get_transaction_info(world.production, world.sandbox, ExpectedAud), now)

\* IapDetails::from_apple_transaction on its own.
NormalizeAppleTransaction ==
  /\ pc = "idle"
  /\ \E T \in ProductTypes, m \in ApiTransactions, include_price_info \in BOOLEAN :
       \E overflow_checks \in BuildProfiles(include_price_info) :
         Finish("from_apple_transaction",
                [T |-> T, m |-> m, include_price_info |-> include_price_info,
                 clock |-> <<now>>, overflow_checks |-> overflow_checks],
                [res |-> from_apple_transaction(T, m, include_price_info, now,
                                                overflow_checks),
                 calls |-> <<>>],
                now)

\* IapDetails::from_google_product_purchase on its own.
NormalizeGoogleProductPurchase ==
  /\ pc = "idle"
  /\ \E T \in {"Consumable", "NonConsumable"}, m \in ProductPurchases,
        p \in Opt(InAppProducts) :
       LET purchase_id == GooglePlayPurchaseToken("token-1")
       IN Finish("from_google_product_purchase",
                 [T |-> T, purchase_id |-> purchase_id, m |-> m, p |-> p],
                 [res |-> from_google_product_purchase(T, purchase_id, m, p),
                  calls |-> <<>>],
                 now)

\* IapDetails::from_google_subscription_purchase on its own.
NormalizeGoogleSubscriptionPurchase ==
  /\ pc = "idle"
  /\ \E m \in ApiSubscriptions :
       \E clock \in ClockReadings(Len(m.line_items), now) :
         LET purchase_id == GooglePlayPurchaseToken("token-1")
         IN Finish("from_google_subscription_purchase",
                   [T |-> "Subscription", purchase_id |-> purchase_id, m |-> m,
                    p |-> None, clock |-> clock],
                   [res |-> from_google_subscription_purchase("Subscription", purchase_id,
                                                              m, None, clock),
                    calls |-> <<>>],
                   LastReading(clock, now))

\* parse_apple_notification.
ParseAppleNotification ==
  /\ pc = "idle"
  /\ \E body \in AppleBodies :
       Finish("parse_apple_notification", [body |-> body, clock |-> <<now>>],
              parse_apple_notification(body, now), now)

\* parse_google_notification.
ParseGoogleNotification ==
  /\ pc = "idle"
  /\ \E header \in {SignedByGoogle} \cup NotFromGoogle, body \in GoogleBodies :
       \E world \in IF FetchesSubscription(body)
                    THEN IF header = SignedByGoogle
                         THEN GoogleSubscriptionWorlds(NotifiedSubscriptions)
                         ELSE GoogleSubscriptionWorlds({BaseSubscription})
                    ELSE {[subscription |-> NotCalled]} :
         \E clock \in ClockReadings(ItemsIn(world.subscription), now) :
           Finish("parse_google_notification",
                  [authorization_header |-> header, body |-> body, world |-> world,
                   clock |-> clock],
                  parse_google_notification(header, body, world, clock),
                  LastReading(clock, now))

\* consume.
Consume ==
  /\ pc = "idle"
  /\ \E sku \in Skus,
        purchase_id \in {AppStoreTransactionId("original-1"),
                         GooglePlayPurchaseToken("token-1")},
        answer \in GoogleAnswers({"unit"}) \ {Failed("failed to parse callout response")} :
       LET world == [consume |-> IF purchase_id.vendor = "GooglePlayPurchaseToken"
                                 THEN answer ELSE NotCalled]
       IN Finish("consume", [sku |-> sku, purchase_id |-> purchase_id, world |-> world],
                 consume(sku, purchase_id, world), now)

\* request_apple_test_notification.
RequestAppleTestNotification ==
  /\ pc = "idle"
  /\ \E sandbox \in BOOLEAN,
        world \in AppleWorlds({[test_notification_token |-> "test-token"]},
                           {Failed("callout failed to send"),
                            Answered([test_notification_token |-> "test-token-2"])}) :
       Finish("request_apple_test_notification", [sandbox |-> sandbox, world |-> world],
              request_test_notification(sandbox, world), now)

NextVerify == Tick \/ Return \/ VerifyApple \/ VerifyGoogleProduct \/ VerifyGoogleSubscription
SpecVerify == Init /\ [][NextVerify]_vars

NextTrust == Return \/ ValidateAppleJws \/ ValidateGoogleHeader
SpecTrust == Init /\ [][NextTrust]_vars

NextAppleApi == Return \/ GetTransactionInfo \/ RequestAppleTestNotification
SpecAppleApi == Init /\ [][NextAppleApi]_vars

NextNormalizer ==
  \/ Tick
  \/ Return
  \/ NormalizeAppleTransaction
  \/ NormalizeGoogleProductPurchase
  \/ NormalizeGoogleSubscriptionPurchase
SpecNormalizer == Init /\ [][NextNormalizer]_vars

NextAppleFacade == Tick \/ Return \/ VerifyApple \/ ParseAppleNotification
SpecAppleFacade == Init /\ [][NextAppleFacade]_vars

NextApple == Tick \/ Return \/ ParseAppleNotification
SpecApple == Init /\ [][NextApple]_vars

NextGoogle == Tick \/ Return \/ ParseGoogleNotification
SpecGoogle == Init /\ [][NextGoogle]_vars

\* The public operations that return purchase details or notifications.
NextFacade ==
  \/ Tick \/ Return
  \/ VerifyApple \/ VerifyGoogleProduct \/ VerifyGoogleSubscription
  \/ ParseAppleNotification \/ ParseGoogleNotification
SpecFacade == Init /\ [][NextFacade]_vars

\* A one-time purchase on Google Play: verified, then consumed.
NextConsume == Tick \/ Return \/ VerifyGoogleProduct \/ Consume
SpecConsume == Init /\ [][NextConsume]_vars

\* Verifications of Apple payloads running side by side in one process.
NextTrustStore ==
  \/ StartVerification
  \/ ClaimTrustStore
  \/ LoadTrustStore
  \/ ReadTrustStore
  \/ FinishVerification
  \/ TakeVerification
SpecTrustStore == Init /\ [][NextTrustStore]_vars

\* The App Store Server API datasource of one long-lived instance.
NextAppleSession == Tick \/ Return \/ GetTransactionInfo \/ RequestAppleTestNotification
SpecAppleSession == Init /\ [][NextAppleSession]_vars

Next ==
  \/ Tick
  \/ Return
  \/ VerifyApple
  \/ VerifyGoogleProduct
  \/ VerifyGoogleSubscription
  \/ ParseAppleNotification
  \/ ParseGoogleNotification
  \/ Consume
  \/ RequestAppleTestNotification
  \/ ValidateAppleJws
  \/ ValidateGoogleHeader
  \/ GetTransactionInfo
  \/ NormalizeAppleTransaction
  \/ NormalizeGoogleProductPurchase
  \/ NormalizeGoogleSubscriptionPurchase
  \/ StartVerification
  \/ ClaimTrustStore
  \/ LoadTrustStore
  \/ ReadTrustStore
  \/ FinishVerification
  \/ TakeVerification

Spec == Init /\ [][Next]_vars

----------------------------------------------------------------------------
(* Properties                                                              *)

\* A call of the named operation has just completed.
Done(name) == pc = "done" /\ op = name

\* What verify_and_get_details fetched and normalized for the recorded call,
\* before the activity gate.
VerifyFetched ==
  fetch_iap_details(input.T, input.sku, input.purchase_id, input.include_price_info,
                    input.world, now, input.clock, input.overflow_checks).res

\* C1: verify_and_get_details never returns Ok with is_active = false; when
\* the fetch and the normalization succeed, the call fails with NotActive
\* exactly when the computed is_active is false (so a Google subscription in
\* state Expired whose line items are all expired yields NotActive), and
\* NotActive is returned in no other case.
C1_InactiveIsNotActive ==
  Done("verify_and_get_details") =>
    /\ result.ok => result.v.is_active
    /\ (VerifyFetched.ok /\ ~VerifyFetched.v.is_active) => result = NotActive
    /\ (VerifyFetched.ok /\ VerifyFetched.v.is_active) => result = VerifyFetched
    /\ result = NotActive => (VerifyFetched.ok /\ ~VerifyFetched.v.is_active)
    /\ ( /\ input.purchase_id.vendor = "GooglePlayPurchaseToken"
         /\ input.T = "Subscription"
         /\ input.world.subscription.status = "ok"
         /\ input.world.subscription.body.subscription_state = "SubscriptionStateExpired"
         /\ VerifyFetched.ok
         /\ \A i \in DOMAIN input.world.subscription.body.line_items :
              input.world.subscription.body.line_items[i].expiry_time <= input.clock[i] )
       => result = NotActive

\* An expired Google subscription, fetched and normalized, refused as NotActive.
C1_Witness ==
  /\ Done("verify_and_get_details")
  /\ input.purchase_id.vendor = "GooglePlayPurchaseToken"
  /\ input.T = "Subscription"
  /\ input.world.subscription.status = "ok"
  /\ input.world.subscription.body.subscription_state = "SubscriptionStateExpired"
  /\ Len(input.world.subscription.body.line_items) > 0
  /\ VerifyFetched.ok
  /\ result = NotActive

\* The callouts of the named endpoint function, in the order they were made.
Callouts(function_name) == SelectSeq(calls, LAMBDA c : c.call = function_name)

\* What get_transaction_info makes of an endpoint's answer.
TransactionInfoOf(answer) ==
  validate_and_parse_apple_jws(answer.body.signed_transaction_info, ExpectedAud,
                               "transaction").res

\* C2: get_transaction_info calls production first and exactly once; it calls
\* sandbox only if production failed, and then once; production's response is
\* the one used when production succeeds, sandbox's when only sandbox
\* succeeds, and when both fail the error returned is production's.
C2_SandboxFallback ==
  Done("get_transaction_info") =>
    LET cs == Callouts("GetTransactionInfo")
        production == input.world.production
        sandbox == input.world.sandbox
        ToProduction == {i \in DOMAIN cs : cs[i].args = <<"production">>}
        ToSandbox == {i \in DOMAIN cs : cs[i].args = <<"sandbox">>}
    IN /\ cs # <<>> /\ cs[1].args = <<"production">>
       /\ Cardinality(ToProduction) = 1
       /\ Cardinality(ToSandbox) <= 1
       /\ ToProduction \cup ToSandbox = DOMAIN cs
       /\ ToSandbox # {} <=> production.status # "ok"
       /\ production.status = "ok" => result = TransactionInfoOf(production)
       /\ (production.status # "ok" /\ sandbox.status = "ok")
            => result = TransactionInfoOf(sandbox)
       /\ (production.status # "ok" /\ sandbox.status # "ok")
            => result = Err("AppStoreServerApiError", production.status)

\* Both endpoints failed, each in its own way, and production's error came back.
C2_Witness ==
  /\ Done("get_transaction_info")
  /\ input.world.production.status # "ok"
  /\ input.world.sandbox.status # "ok"
  /\ input.world.sandbox.status # input.world.production.status
  /\ Len(Callouts("GetTransactionInfo")) = 2
  /\ result = Err("AppStoreServerApiError", input.world.production.status)

\* The leaf (first entry) of an x5c chain is issued, through entries of the
\* rest of the chain only, by one of the pinned Apple certificates.
LeadsToPinned(x5c) ==
  \E n \in 1..Len(x5c) :
    \E path \in [1..n -> Range(x5c)] :
      /\ path[1] = x5c[1]
      /\ \A i \in 1..(n - 1) :
           /\ path[i + 1] = Issuer(path[i])
           /\ \E k \in 2..Len(x5c) : x5c[k] = path[i + 1]
      /\ Issuer(path[n]) \in
           {"AppleRootCA-G2", "AppleRootCA-G3", "AppleWWDRCAG2", "AppleWWDRCAG3",
            "AppleWWDRCAG4", "AppleWWDRCAG5", "AppleWWDRCAG6", "AppleWWDRCAG8"}

\* The positions of a step in the recorded log.
StepsNamed(name) == {i \in DOMAIN calls : calls[i].call = name}

\* C3: validate_and_parse_apple_jws returns Ok only if the first x5c entry
\* validated against the pinned store with the remaining entries as
\* intermediates and the ES256 signature verified with that leaf's key; a
\* chain to an untrusted root, an empty chain or a tampered signature always
\* gives InvalidAppleSignature; the signature is checked only after the chain
\* has been validated.
C3_AppleTrust ==
  Done("validate_and_parse_apple_jws") =>
    LET jws == input.jws
    IN /\ result.ok =>
            /\ jws.x5c.some /\ jws.x5c.v # <<>>
            /\ LeadsToPinned(jws.x5c.v)
            /\ jws.alg = "ES256"
            /\ jws.signer = PublicKey(jws.x5c.v[1])
            /\ ~jws.tampered
       /\ ( /\ jws.header_ok /\ jws.x5c.some
            /\ \/ jws.x5c.v = <<>>
               \/ ~LeadsToPinned(jws.x5c.v)
               \/ jws.tampered
               \/ jws.signer # PublicKey(jws.x5c.v[1]) )
          => (~result.ok /\ result.err = "InvalidAppleSignature")
       /\ \A i \in StepsNamed("verify_signature") :
            /\ \E j \in StepsNamed("verify_cert") : j < i
            /\ LeadsToPinned(jws.x5c.v)

\* A correctly signed payload whose chain ends at a root of its own, refused.
C3_Witness ==
  /\ Done("validate_and_parse_apple_jws")
  /\ input.jws.header_ok
  /\ input.jws.x5c = Some(<<"leafEvil", "rootEvil">>)
  /\ input.jws.signer = "leafEvil" /\ ~input.jws.tampered
  /\ input.jws.aud = AudOne(ExpectedAud)
  /\ result = Err("InvalidAppleSignature", "invalid x5c chain")
  /\ StepsNamed("verify_signature") = {}

\* The token of an Authorization header: what follows the "Bearer" words.
TokenOf(header) == header[Len(header)]

\* C4: a payload whose aud claim does not match the expected audience is
\* always rejected: Apple's aud must equal the expected audience, else
\* InvalidAppleSignature; Google's aud is a string equal to it or an array
\* with an element equal to it, else InvalidGoogleSignature.
C4_AudienceEnforced ==
  /\ Done("validate_and_parse_apple_jws") =>
       /\ result.ok => input.jws.aud = AudOne(ExpectedAud)
       /\ (StepsNamed("validate_aud") # {} /\ input.jws.aud # AudOne(ExpectedAud))
            => (~result.ok /\ result.err = "InvalidAppleSignature")
  /\ Done("validate_google_header") =>
       LET header == input.authorization_header
       IN /\ result.ok =>
               /\ header # <<>>
               /\ \/ TokenOf(header).aud = AudOne(ExpectedAud)
                  \/ /\ TokenOf(header).aud.form = "many"
                     /\ \E i \in DOMAIN TokenOf(header).aud.vs :
                          TokenOf(header).aud.vs[i] = ExpectedAud
          /\ (header \in {<<t>> : t \in GoogleTokens} \cup {<<Bearer, t>> : t \in GoogleTokens}
                /\ TokenOf(header).sig = "ok"
                /\ ExpectedAud \notin Range(TokenOf(header).aud.vs))
               => result = Err("InvalidGoogleSignature", "audience")

\* What of C4 the code does enforce: an Apple aud claim that is present and
\* does not hold the expected audience is refused with InvalidAppleSignature
\* once chain and signature have passed, and Google's rule as stated.
C4_PresentAudienceEnforced ==
  /\ Done("validate_and_parse_apple_jws") =>
       /\ result.ok =>
            (input.jws.aud.form = "absent" \/ ExpectedAud \in Range(input.jws.aud.vs))
       /\ ( /\ StepsNamed("validate_aud") # {}
            /\ input.jws.aud.form # "absent"
            /\ ExpectedAud \notin Range(input.jws.aud.vs) )
            => (~result.ok /\ result.err = "InvalidAppleSignature")
  /\ Done("validate_google_header") =>
       (result.ok => ExpectedAud \in Range(TokenOf(input.authorization_header).aud.vs))

\* An Apple-signed payload that carries no aud claim, accepted.
C4_AbsentAudAccepted ==
  /\ Done("validate_and_parse_apple_jws")
  /\ input.jws.aud = AudAbsent
  /\ result.ok

\* The steps of decoding a Pub/Sub body, and the vendor call a notification
\* can lead to.
BodySteps ==
  StepsNamed("parse_pubsub_wrapper") \cup StepsNamed("base64_decode")
    \cup StepsNamed("parse_notification_struct")

\* C5: parse_google_notification verifies the Authorization header before
\* it touches the body: with a header that does not verify the result is
\* InvalidGoogleSignature whatever the body is, nothing of the body is
\* decoded and no vendor API call is made; a parse error is returned only
\* after the header has verified.
C5_HeaderBeforeBody ==
  Done("parse_google_notification") =>
    /\ input.authorization_header \in NotFromGoogle =>
         /\ ~result.ok /\ result.err = "InvalidGoogleSignature"
         /\ BodySteps = {}
         /\ StepsNamed("purchases.subscriptionsv2.get") = {}
         /\ calls = <<Call("validate_google_header", <<>>)>>
    /\ (~result.ok /\ result.err = "GoogleCloudRtdnNotificationParseError") =>
         /\ input.authorization_header = SignedByGoogle
         /\ calls # <<>> /\ calls[1].call = "validate_google_header"
    /\ \A i \in BodySteps \cup StepsNamed("purchases.subscriptionsv2.get") :
         \E j \in StepsNamed("validate_google_header") : j < i

\* A malformed body under a header that does not verify: refused for the
\* header, the body untouched.
C5_Witness ==
  /\ Done("parse_google_notification")
  /\ input.authorization_header \in NotFromGoogle
  /\ ~input.body.wrapper.some
  /\ result.err = "InvalidGoogleSignature"
  /\ BodySteps = {}

\* A JWS is one Apple signed for this audience and holds a payload of the kind.
Verifies(jws, kind) == jws = SignedByApple(jws.payload) /\ jws.payload.kind = kind

\* The steps taken on one of the signed payloads of a notification.
StepsOn(payload) == {i \in DOMAIN calls : calls[i].args = <<payload>>}

\* C6: parse_apple_notification returns a notification only if every signed
\* payload it uses verified: the outer signedPayload first, then, when data
\* is present, signedTransactionInfo and signedRenewalInfo, each on its own
\* and with the same audience; a failure of any of the three fails the parse
\* with the verifier's error (the renewal info included, though its value is
\* not used), and a malformed envelope fails with the parse error before any
\* verification.
C6_AllPayloadsVerified ==
  Done("parse_apple_notification") =>
    LET body == input.body
        outer == body.signed_payload
        data == outer.payload.data
        has_tx == data.some /\ data.v.signed_transaction_info.some
        has_rn == data.some /\ data.v.signed_renewal_info.some
        tx == data.v.signed_transaction_info.v
        rn == data.v.signed_renewal_info.v
    IN /\ ~body.json_ok =>
            /\ ~result.ok /\ result.err = "AppStoreServerNotificationParseError"
            /\ calls = <<>>
       /\ result.ok =>
            /\ body.json_ok
            /\ Verifies(outer, "notification")
            /\ has_tx => Verifies(tx, "transaction")
            /\ has_rn => Verifies(rn, "renewal")
       /\ (body.json_ok /\ ~Verifies(outer, "notification")) =>
            result = validate_and_parse_apple_jws(outer, ExpectedAud, "notification").res
       /\ (body.json_ok /\ Verifies(outer, "notification") /\ has_tx
             /\ ~Verifies(tx, "transaction")) =>
            result = validate_and_parse_apple_jws(tx, ExpectedAud, "transaction").res
       /\ (body.json_ok /\ Verifies(outer, "notification")
             /\ (has_tx => Verifies(tx, "transaction"))
             /\ has_rn /\ ~Verifies(rn, "renewal")) =>
            /\ ~result.ok
            /\ result = validate_and_parse_apple_jws(rn, ExpectedAud, "renewal").res
       /\ \A i \in StepsOn("signedTransactionInfo") \cup StepsOn("signedRenewalInfo") :
            \A j \in StepsOn("signedPayload") : j < i
       /\ \A i \in StepsOn("signedRenewalInfo") :
            \A j \in StepsOn("signedTransactionInfo") : j < i

\* A notification whose renewal info alone fails verification, refused.
C6_Witness ==
  /\ Done("parse_apple_notification")
  /\ input.body.json_ok
  /\ Verifies(input.body.signed_payload, "notification")
  /\ input.body.signed_payload.payload.data.some
  /\ input.body.signed_payload.payload.data.v.signed_transaction_info.some
  /\ Verifies(input.body.signed_payload.payload.data.v.signed_transaction_info.v,
              "transaction")
  /\ input.body.signed_payload.payload.data.v.signed_renewal_info.some
  /\ input.body.signed_payload.payload.data.v.signed_renewal_info.v.tampered
  /\ result = Err("InvalidAppleSignature", "failed to verify JWS signature")

\* C7: for every Apple transaction is_active is true iff revocation_date is
\* absent and revocation_reason is absent and expires_date is absent or
\* strictly later than the current time.
C7_AppleActivity ==
  (Done("from_apple_transaction") /\ result.ok) =>
    LET m == input.m
        utc_now == input.clock[1]
    IN /\ result.v.is_active <=>
            /\ ~m.revocation_date.some
            /\ ~m.revocation_reason.some
            /\ (~m.expires_date.some \/ m.expires_date.v > utc_now)
       /\ (m.revocation_date.some \/ m.revocation_reason.some) => ~result.v.is_active
       /\ ( /\ ~m.expires_date.some
            /\ ~m.revocation_date.some /\ ~m.revocation_reason.some )
          => result.v.is_active

\* An unrevoked transaction whose expiration is this very instant: inactive.
C7_Witness ==
  /\ Done("from_apple_transaction")
  /\ result.ok
  /\ ~input.m.revocation_date.some /\ ~input.m.revocation_reason.some
  /\ input.m.expires_date = Some(input.clock[1])
  /\ ~result.v.is_active

\* C8: for a Google subscription is_active is true iff subscription_state is
\* one of Active, Paused, OnHold, Canceled, InGracePeriod and at least one
\* line item has expiry_time strictly greater than the current time (the
\* time read when that item is examined).
C8_GoogleSubscriptionActivity ==
  Done("from_google_subscription_purchase") =>
    LET m == input.m
        Entitling ==
          m.subscription_state \in
            {"SubscriptionStateActive", "SubscriptionStatePaused",
             "SubscriptionStateOnHold", "SubscriptionStateCanceled",
             "SubscriptionStateInGracePeriod"}
        Unexpired ==
          \E i \in DOMAIN m.line_items : m.line_items[i].expiry_time > input.clock[i]
    IN /\ result.ok => (result.v.is_active <=> (Entitling /\ Unexpired))
       /\ (result.ok /\ result.v.is_active) => (Entitling /\ Unexpired)
       /\ ( /\ m.subscription_state = "SubscriptionStateCanceled"
            /\ Unexpired /\ result.ok ) => result.v.is_active
       /\ ( \/ m.line_items = <<>>
            \/ \A i \in DOMAIN m.line_items : m.line_items[i].expiry_time <= input.clock[i]
            \/ m.subscription_state \in
                 {"SubscriptionStateExpired", "SubscriptionStatePending",
                  "SubscriptionStatePendingPurchaseCanceled",
                  "SubscriptionStateUnspecified", "Unknown"} )
          => ~(result.ok /\ result.v.is_active)

\* A canceled subscription with an unexpired line item, found active.
C8_Witness ==
  /\ Done("from_google_subscription_purchase")
  /\ input.m.subscription_state = "SubscriptionStateCanceled"
  /\ Len(input.m.line_items) = 2
  /\ input.m.line_items[1].expiry_time <= input.clock[1]
  /\ input.m.line_items[2].expiry_time > input.clock[2]
  /\ result.ok /\ result.v.is_active

\* C9: with a non-empty line-item list the expiration_time of a Google
\* subscription is the maximum expiry_time over the line items, whatever
\* their order; with an empty list the extraction fails with the
\* invalid-response error and no default is produced.
C9_LatestExpiry ==
  Done("from_google_subscription_purchase") =>
    LET m == input.m
    IN /\ result.ok =>
            /\ m.line_items # <<>>
            /\ \A i \in DOMAIN m.line_items :
                 m.line_items[i].expiry_time <= result.v.type_specific_details.expiration_time
            /\ \E i \in DOMAIN m.line_items :
                 m.line_items[i].expiry_time = result.v.type_specific_details.expiration_time
       /\ m.line_items = <<>> =>
            (~result.ok /\ result.err = "GooglePlayDeveloperApiInvalidResponse")
       /\ (m.line_items = <<>> /\ m.start_time.some /\ from_alpha2(m.region_code).some) =>
            result = Err("GooglePlayDeveloperApiInvalidResponse",
                         "subscription did not have any line items")

\* Two line items, the later expiry first: the first one's expiry is taken.
C9_Witness ==
  /\ Done("from_google_subscription_purchase")
  /\ Len(input.m.line_items) = 2
  /\ input.m.line_items[1].expiry_time > input.m.line_items[2].expiry_time
  /\ result.ok
  /\ result.v.type_specific_details.expiration_time = input.m.line_items[1].expiry_time

\* The Apple notifications that embed subscription details, given the type
\* of the transaction they carry.
EmbedsSubscriptionDetails(notification, transaction) ==
  \/ notification.notification_type \in
       {"Subscribed", "DidRenew", "RefundReversed", "RenewalExtended", "DidFailToRenew",
        "Expired", "GracePeriodExpired"}
  \/ /\ notification.notification_type \in {"Refund", "Revoke"}
     /\ transaction.transaction_type \notin {Some("NonConsumable"), Some("Consumable")}

\* The price computation of from_apple_transaction overflowed in a build
\* that checks overflow (the subject of C22).
PricePanicked ==
  /\ ~result.ok
  /\ result.err = "panic"
  /\ result.detail = "attempt to multiply with overflow"

MissingExpirationDate ==
  Err("AppStoreServerApiInvalidResponse",
      "subscription's transaction info did not contain expiration date")

NotificationIn == input.body.signed_payload.payload
HasTransactionIn ==
  NotificationIn.data.some /\ NotificationIn.data.v.signed_transaction_info.some
TransactionIn == NotificationIn.data.v.signed_transaction_info.v.payload

\* The body of a parse_apple_notification call passed the datasource: the
\* envelope parsed and every signed payload in it verified.
AppleDelivered ==
  /\ Done("parse_apple_notification")
  /\ input.body.json_ok
  /\ Verifies(input.body.signed_payload, "notification")
  /\ HasTransactionIn =>
       Verifies(NotificationIn.data.v.signed_transaction_info.v, "transaction")
  /\ (NotificationIn.data.some /\ NotificationIn.data.v.signed_renewal_info.some) =>
       Verifies(NotificationIn.data.v.signed_renewal_info.v, "renewal")

\* C11: an Apple notification of type DidRenew, DidFailToRenew with subtype
\* GracePeriod, RefundReversed or RenewalExtended, with data and transaction
\* info, maps to SubscriptionExpiryChanged; renewal_id is the transaction id
\* of the new transaction exactly for DidRenew, and purchase_id is the
\* original transaction id.  (Without expires_date the call fails, see C10.)
C11_AppleExpiryChanged ==
  ( /\ AppleDelivered /\ HasTransactionIn
    /\ \/ NotificationIn.notification_type \in {"DidRenew", "RefundReversed", "RenewalExtended"}
       \/ /\ NotificationIn.notification_type = "DidFailToRenew"
          /\ NotificationIn.subtype = Some("GracePeriod") )
  => IF ~TransactionIn.expires_date.some THEN result = MissingExpirationDate
     ELSE /\ result.ok
          /\ result.v.details.tag = "SubscriptionExpiryChanged"
          /\ result.v.details.renewal_id =
               (IF NotificationIn.notification_type = "DidRenew"
                THEN Some(TransactionIn.transaction_id) ELSE None)
          /\ result.v.details.purchase_id =
               AppStoreTransactionId(TransactionIn.original_transaction_id)

\* A renewal: the renewal id is the id of the new transaction, the purchase
\* id the id of the original one.
C11_WitnessRenewed ==
  /\ AppleDelivered /\ HasTransactionIn
  /\ NotificationIn.notification_type = "DidRenew"
  /\ TransactionIn.original_transaction_id # TransactionIn.transaction_id
  /\ result.ok
  /\ result.v.details.tag = "SubscriptionExpiryChanged"
  /\ result.v.details.renewal_id = Some(TransactionIn.transaction_id)
  /\ result.v.details.purchase_id =
       AppStoreTransactionId(TransactionIn.original_transaction_id)

\* A failed renewal in its grace period: an expiry change without renewal id.
C11_Witness ==
  /\ AppleDelivered /\ HasTransactionIn
  /\ NotificationIn.notification_type = "DidFailToRenew"
  /\ NotificationIn.subtype = Some("GracePeriod")
  /\ result.ok
  /\ result.v.details.tag = "SubscriptionExpiryChanged"
  /\ result.v.details.renewal_id = None

\* C12: DidFailToRenew with any subtype other than GracePeriod (or none),
\* Expired and GracePeriodExpired map to SubscriptionEnded; the reason is
\* FailedToRenew for type GracePeriodExpired or subtype BillingRetry, else
\* Cancelled for subtype Voluntary, else DeclinedPriceIncrease for subtype
\* PriceIncrease, else Unknown.
C12_AppleEnded ==
  ( /\ AppleDelivered /\ HasTransactionIn
    /\ \/ NotificationIn.notification_type \in {"Expired", "GracePeriodExpired"}
       \/ /\ NotificationIn.notification_type = "DidFailToRenew"
          /\ NotificationIn.subtype # Some("GracePeriod") )
  => IF ~TransactionIn.expires_date.some THEN result = MissingExpirationDate
     ELSE /\ result.ok
          /\ result.v.details.tag = "SubscriptionEnded"
          /\ result.v.details.reason.reason =
               (IF \/ NotificationIn.notification_type = "GracePeriodExpired"
                   \/ NotificationIn.subtype = Some("BillingRetry")
                THEN "FailedToRenew"
                ELSE IF NotificationIn.subtype = Some("Voluntary") THEN "Cancelled"
                ELSE IF NotificationIn.subtype = Some("PriceIncrease")
                THEN "DeclinedPriceIncrease"
                ELSE "Unknown")

\* A grace period that expired on a voluntary cancellation: the type wins.
C12_Witness ==
  /\ AppleDelivered /\ HasTransactionIn
  /\ NotificationIn.notification_type = "GracePeriodExpired"
  /\ NotificationIn.subtype = Some("Voluntary")
  /\ result.ok
  /\ result.v.details.tag = "SubscriptionEnded"
  /\ result.v.details.reason.reason = "FailedToRenew"

\* C13: Refund and Revoke map by the transaction's type: NonConsumable to
\* NonConsumableVoided, Consumable to ConsumableVoided, every other type
\* (auto-renewable, non-renewing, unknown or absent) to SubscriptionEnded
\* with reason Voided; is_refunded is true exactly when the type is Refund.
C13_AppleVoided ==
  ( /\ AppleDelivered /\ HasTransactionIn
    /\ NotificationIn.notification_type \in {"Refund", "Revoke"} )
  => LET refunded == NotificationIn.notification_type = "Refund"
     IN CASE TransactionIn.transaction_type = Some("NonConsumable") ->
               /\ result.ok
               /\ result.v.details.tag = "NonConsumableVoided"
               /\ result.v.details.is_refunded = refunded
          [] TransactionIn.transaction_type = Some("Consumable") ->
               /\ result.ok
               /\ result.v.details.tag = "ConsumableVoided"
               /\ result.v.details.is_refunded = refunded
          [] OTHER ->
               IF ~TransactionIn.expires_date.some THEN result = MissingExpirationDate
               ELSE /\ result.ok
                    /\ result.v.details.tag = "SubscriptionEnded"
                    /\ result.v.details.reason =
                         [reason |-> "Voided", is_refunded |-> refunded]

\* A revoked transaction without a type ends the subscription, not refunded.
C13_Witness ==
  /\ AppleDelivered /\ HasTransactionIn
  /\ NotificationIn.notification_type = "Revoke"
  /\ TransactionIn.transaction_type = None
  /\ result.ok
  /\ result.v.details.tag = "SubscriptionEnded"
  /\ result.v.details.reason = [reason |-> "Voided", is_refunded |-> FALSE]

\* The revoked consumable: voided as a consumable, not refunded.
C13_WitnessConsumable ==
  /\ AppleDelivered /\ HasTransactionIn
  /\ NotificationIn.notification_type = "Revoke"
  /\ TransactionIn.transaction_type = Some("Consumable")
  /\ result.ok
  /\ result.v.details.tag = "ConsumableVoided"
  /\ ~result.v.details.is_refunded

\* C14: every remaining Apple type (DidChangeRenewalPref,
\* DidChangeRenewalStatus, OfferRedeemed, PriceIncrease, RefundDeclined,
\* RenewalExtension, ExternalPurchaseToken, OneTimeCharge, ConsumptionRequest
\* and unrecognized types) maps to Other for every subtype, with or without
\* data and transaction info; RenewalExtended is not among them.
C14_AppleOther ==
  /\ ( /\ AppleDelivered
       /\ NotificationIn.notification_type \in
            {"DidChangeRenewalPref", "DidChangeRenewalStatus", "OfferRedeemed",
             "PriceIncrease", "RefundDeclined", "RenewalExtension",
             "ExternalPurchaseToken", "OneTimeCharge", "ConsumptionRequest", "Unknown"} )
     => /\ result.ok
        /\ result.v.details = [tag |-> "Other"]
  /\ ( /\ AppleDelivered
       /\ NotificationIn.notification_type = "RenewalExtended" )
     => ~(result.ok /\ result.v.details.tag = "Other")

\* A price-increase notice with a subtype but no data is Other.
C14_Witness ==
  /\ AppleDelivered
  /\ NotificationIn.notification_type = "PriceIncrease"
  /\ NotificationIn.subtype = Some("Voluntary")
  /\ ~NotificationIn.data.some
  /\ result.ok
  /\ result.v.details = [tag |-> "Other"]

\* The arms of from_apple_notification that read data and transaction info.
NeedsDataIn ==
  NotificationIn.notification_type \in
    {"Subscribed", "DidRenew", "DidFailToRenew", "RefundReversed", "RenewalExtended",
     "Expired", "GracePeriodExpired", "Refund", "Revoke"}

\* C15: in the arms that need data (Subscribed, the expiry-changed arm, the
\* ended arm, Refund, Revoke) an absent data object or absent transaction
\* info is the invalid-response error, never a notification with defaulted
\* fields; the Test and Other arms never fail for missing data.
C15_MissingDataIsError ==
  (AppleDelivered /\ ~HasTransactionIn)
  => IF NeedsDataIn
     THEN result = expected_data_missing_err(NotificationIn.notification_type)
            /\ result.err = "AppStoreServerApiInvalidResponse"
     ELSE /\ result.ok
          /\ result.v.details.tag =
               (IF NotificationIn.notification_type = "Test" THEN "Test" ELSE "Other")

\* A renewal with a data object but no transaction info in it.
C15_Witness ==
  /\ AppleDelivered
  /\ NotificationIn.notification_type = "DidRenew"
  /\ NotificationIn.data.some /\ ~HasTransactionIn
  /\ ~result.ok
  /\ result.err = "AppStoreServerApiInvalidResponse"

\* A test notification without data still parses.
C15_WitnessTest ==
  /\ AppleDelivered
  /\ NotificationIn.notification_type = "Test"
  /\ ~NotificationIn.data.some
  /\ result.ok /\ result.v.details = [tag |-> "Test"]

\* The notification a call of parse_google_notification was handed, once
\* the header verified and the body decoded.
GoogleDelivered ==
  /\ Done("parse_google_notification")
  /\ input.authorization_header = SignedByGoogle
  /\ input.body.wrapper.some
  /\ input.body.wrapper.v.data.base64_ok
  /\ input.body.wrapper.v.data.json.some
GoogleNotificationIn == input.body.wrapper.v.data.json.v
SubscriptionFetches == Callouts("purchases.subscriptionsv2.get")
FetchOf(token) ==
  <<Call("purchases.subscriptionsv2.get", <<GoogleNotificationIn.package_name, token>>)>>

\* C16: the four optional payloads of a Google notification are looked at
\* in a fixed order: a test notification gives Test without any vendor
\* call, whatever else is present; otherwise a subscription notification
\* is dispatched as a subscription event; otherwise a voided purchase as a
\* voided purchase; otherwise a one-time product notification gives Other;
\* with none of the four the parse fails with the parse error.
C16_GoogleDispatchOrder ==
  GoogleDelivered =>
    LET n == GoogleNotificationIn
        sub == n.subscription_notification.v
        voided == n.voided_purchase_notification.v
    IN IF n.test_notification.some THEN
         /\ result.ok /\ result.v.details = [tag |-> "Test"]
         /\ SubscriptionFetches = <<>>
       ELSE IF n.subscription_notification.some THEN
         /\ SubscriptionFetches = FetchOf(sub.purchase_token)
         /\ result.ok =>
              /\ result.v.details.tag \in {"SubscriptionStarted", "SubscriptionExpiryChanged",
                                           "SubscriptionEnded", "Other"}
              /\ result.v.details.tag # "Other" =>
                   /\ result.v.details.purchase_id =
                        GooglePlayPurchaseToken(sub.purchase_token)
                   /\ result.v.details.tag = "SubscriptionEnded" =>
                        result.v.details.reason.reason # "Voided"
       ELSE IF n.voided_purchase_notification.some THEN
         IF voided.product_type = "ProductTypeOneTime"
         THEN /\ result.ok
              /\ result.v.details.tag = "UnknownOneTimePurchaseVoided"
              /\ SubscriptionFetches = <<>>
         ELSE /\ SubscriptionFetches = FetchOf(voided.purchase_token)
              /\ result.ok =>
                   /\ result.v.details.tag = "SubscriptionEnded"
                   /\ result.v.details.reason.reason = "Voided"
       ELSE IF n.one_time_product_notification.some THEN
         /\ result.ok /\ result.v.details = [tag |-> "Other"]
         /\ SubscriptionFetches = <<>>
       ELSE /\ ~result.ok
            /\ result.err = "GoogleCloudRtdnNotificationParseError"
            /\ SubscriptionFetches = <<>>

\* A subscription notification beside a voided purchase and a one-time
\* product notification: the subscription is the one dispatched.
C16_Witness ==
  /\ GoogleDelivered
  /\ ~GoogleNotificationIn.test_notification.some
  /\ GoogleNotificationIn.subscription_notification.some
  /\ GoogleNotificationIn.voided_purchase_notification.some
  /\ GoogleNotificationIn.one_time_product_notification.some
  /\ result.ok
  /\ result.v.details.tag = "SubscriptionExpiryChanged"
  /\ SubscriptionFetches =
       FetchOf(GoogleNotificationIn.subscription_notification.v.purchase_token)

\* All four payloads present: a test, and nothing is fetched.
C16_WitnessTest ==
  /\ GoogleDelivered
  /\ GoogleNotificationIn.test_notification.some
  /\ GoogleNotificationIn.subscription_notification.some
  /\ GoogleNotificationIn.voided_purchase_notification.some
  /\ GoogleNotificationIn.one_time_product_notification.some
  /\ result.ok /\ result.v.details = [tag |-> "Test"]
  /\ SubscriptionFetches = <<>>

\* A Google subscription notification was dispatched and the subscription
\* it names was fetched with at least one line item.
GoogleSubscriptionDelivered ==
  /\ GoogleDelivered
  /\ ~GoogleNotificationIn.test_notification.some
  /\ GoogleNotificationIn.subscription_notification.some
  /\ input.world.subscription.status = "ok"
  /\ input.world.subscription.body.line_items # <<>>
SubscriptionTypeIn == GoogleNotificationIn.subscription_notification.v.notification_type
ApiDataIn == input.world.subscription.body
\* The details the fetched subscription normalizes to, or the error.
ApiDetailsIn ==
  from_google_subscription_purchase(
    "Subscription",
    GooglePlayPurchaseToken(GoogleNotificationIn.subscription_notification.v.purchase_token),
    ApiDataIn, None, input.clock)

\* C17: a Google subscription notification is classified by its type:
\* Purchased is SubscriptionStarted; Recovered, Renewed, InGracePeriod and
\* Deferred are SubscriptionExpiryChanged, with the latest order id as
\* renewal_id exactly for Renewed and Recovered; Expired, Revoked, Paused
\* and OnHold are SubscriptionEnded; Restarted, Canceled,
\* PriceChangeConfirmed, PauseScheduleChanged and PendingPurchaseCanceled
\* are Other.  (The subscription is fetched first; the classes that embed
\* its details fail when it cannot be normalized.)
C17_GoogleSubscriptionClasses ==
  GoogleSubscriptionDelivered =>
    LET type == SubscriptionTypeIn
        embedded(tag) ==
          IF ~ApiDetailsIn.ok THEN result = ApiDetailsIn
          ELSE /\ result.ok
               /\ result.v.details.tag = tag
               /\ result.v.details.details = ApiDetailsIn.v
    IN CASE type = "SubscriptionPurchased" -> embedded("SubscriptionStarted")
         [] type \in {"SubscriptionRenewed", "SubscriptionRecovered"} ->
              /\ embedded("SubscriptionExpiryChanged")
              /\ result.ok => result.v.details.renewal_id = Some(ApiDataIn.latest_order_id)
         [] type \in {"SubscriptionInGracePeriod", "SubscriptionDeferred"} ->
              /\ embedded("SubscriptionExpiryChanged")
              /\ result.ok => result.v.details.renewal_id = None
         [] type \in {"SubscriptionExpired", "SubscriptionRevoked", "SubscriptionPaused",
                      "SubscriptionOnHold"} ->
              embedded("SubscriptionEnded")
         [] type \in {"SubscriptionRestarted", "SubscriptionCanceled",
                      "SubscriptionPriceChangeConfirmed",
                      "SubscriptionPauseScheduleChanged",
                      "SubscriptionPendingPurchaseCanceled"} ->
              result.ok /\ result.v.details = [tag |-> "Other"]

\* A change of the pause schedule is Other, not the end of the subscription.
C17_Witness ==
  /\ GoogleSubscriptionDelivered
  /\ SubscriptionTypeIn = "SubscriptionPauseScheduleChanged"
  /\ result.ok /\ result.v.details = [tag |-> "Other"]

\* A recovered subscription: an expiry change that names the latest order.
C17_WitnessRecovered ==
  /\ GoogleSubscriptionDelivered
  /\ SubscriptionTypeIn = "SubscriptionRecovered"
  /\ result.ok
  /\ result.v.details.tag = "SubscriptionExpiryChanged"
  /\ result.v.details.renewal_id = Some(ApiDataIn.latest_order_id)

\* C18: the reason of a Google SubscriptionEnded is chosen in a strict
\* order: Paused for the Paused type, whatever the cancellation context;
\* else FailedToRenew when the fetched subscription has a system-initiated
\* cancellation, even beside a user-initiated one; else Cancelled with the
\* details of the user-initiated cancellation; else Unknown, also without
\* a context or with only a developer-initiated or replacement cancellation.
C18_GoogleEndReason ==
  ( /\ GoogleSubscriptionDelivered
    /\ SubscriptionTypeIn \in {"SubscriptionExpired", "SubscriptionRevoked",
                               "SubscriptionPaused", "SubscriptionOnHold"}
    /\ result.ok )
  => LET csc == ApiDataIn.canceled_state_context
     IN /\ result.v.details.tag = "SubscriptionEnded"
        /\ result.v.details.reason =
             (IF SubscriptionTypeIn = "SubscriptionPaused" THEN [reason |-> "Paused"]
              ELSE IF csc.some /\ csc.v.system_initiated_cancellation.some
              THEN [reason |-> "FailedToRenew"]
              ELSE IF csc.some /\ csc.v.user_initiated_cancellation.some
              THEN [reason |-> "Cancelled",
                    details |-> Some(csc.v.user_initiated_cancellation.v)]
              ELSE [reason |-> "Unknown"])

\* Expired with both a system- and a user-initiated cancellation.
C18_Witness ==
  /\ GoogleSubscriptionDelivered
  /\ SubscriptionTypeIn = "SubscriptionExpired"
  /\ ApiDataIn.canceled_state_context.some
  /\ ApiDataIn.canceled_state_context.v.system_initiated_cancellation.some
  /\ ApiDataIn.canceled_state_context.v.user_initiated_cancellation.some
  /\ result.ok
  /\ result.v.details.reason = [reason |-> "FailedToRenew"]

\* Revoked with only a developer-initiated cancellation: Unknown.
C18_WitnessDeveloper ==
  /\ GoogleSubscriptionDelivered
  /\ SubscriptionTypeIn = "SubscriptionRevoked"
  /\ ApiDataIn.canceled_state_context.some
  /\ ApiDataIn.canceled_state_context.v.developer_initiated_cancellation.some
  /\ result.ok
  /\ result.v.details.reason = [reason |-> "Unknown"]

\* Paused with a system-initiated cancellation: Paused.
C18_WitnessPaused ==
  /\ GoogleSubscriptionDelivered
  /\ SubscriptionTypeIn = "SubscriptionPaused"
  /\ ApiDataIn.canceled_state_context.some
  /\ ApiDataIn.canceled_state_context.v.system_initiated_cancellation.some
  /\ result.ok
  /\ result.v.details.reason = [reason |-> "Paused"]

\* A voided purchase is the payload parse_google_notification dispatched.
VoidedDelivered ==
  /\ GoogleDelivered
  /\ ~GoogleNotificationIn.test_notification.some
  /\ ~GoogleNotificationIn.subscription_notification.some
  /\ GoogleNotificationIn.voided_purchase_notification.some
VoidedIn == GoogleNotificationIn.voided_purchase_notification.v

\* C19: a voided purchase of product type OneTime is
\* UnknownOneTimePurchaseVoided, with the purchase token as purchase id and
\* is_refunded true exactly for a full refund, and no vendor call is made
\* during the parse; only a voided purchase of product type Subscription
\* fetches the subscription.
C19_OneTimeVoidedNoCallout ==
  VoidedDelivered =>
    IF VoidedIn.product_type = "ProductTypeOneTime"
    THEN /\ result.ok
         /\ result.v.details.tag = "UnknownOneTimePurchaseVoided"
         /\ result.v.details.purchase_id = GooglePlayPurchaseToken(VoidedIn.purchase_token)
         /\ result.v.details.is_refunded = (VoidedIn.refund_type = "RefundTypeFullRefund")
         /\ \A i \in DOMAIN calls :
              calls[i].call \in {"validate_google_header", "parse_pubsub_wrapper",
                                 "base64_decode", "parse_notification_struct"}
    ELSE SubscriptionFetches = FetchOf(VoidedIn.purchase_token)

\* A partially refunded one-time purchase: voided, not refunded, no fetch.
C19_Witness ==
  /\ VoidedDelivered
  /\ VoidedIn.product_type = "ProductTypeOneTime"
  /\ VoidedIn.refund_type # "RefundTypeFullRefund"
  /\ result.ok
  /\ result.v.details.tag = "UnknownOneTimePurchaseVoided"
  /\ ~result.v.details.is_refunded
  /\ SubscriptionFetches = <<>>

\* C20: consume does nothing for Apple and makes one surfaced call for
\* Google: with an Apple transaction id it returns Ok without any vendor
\* call; with a Google purchase token it calls the consume endpoint once,
\* for the configured application id, the product's sku and the token, and
\* returns what that call returned, an error included.
C20_Consume ==
  Done("consume") =>
    IF input.purchase_id.vendor = "AppStoreTransactionId"
    THEN result = Ok("unit") /\ calls = <<>>
    ELSE /\ calls = <<Call("purchases.products.consume",
                           <<ApplicationId, input.sku, input.purchase_id.id>>)>>
         /\ input.world.consume.status = "ok" => result = Ok("unit")
         /\ input.world.consume.status # "ok" =>
              /\ ~result.ok
              /\ result.err = "GooglePlayDeveloperApiError"
              /\ result.detail = input.world.consume.status

\* The vendor refuses the consume: the error comes back to the caller.
C20_Witness ==
  /\ Done("consume")
  /\ input.purchase_id.vendor = "GooglePlayPurchaseToken"
  /\ input.world.consume.status = "callout returned with 404 status code"
  /\ ~result.ok
  /\ result.err = "GooglePlayDeveloperApiError"
  /\ Len(calls) = 1

\* An Apple transaction id: Ok, and no call at all.
C20_WitnessApple ==
  /\ Done("consume")
  /\ input.purchase_id.vendor = "AppStoreTransactionId"
  /\ result = Ok("unit")
  /\ calls = <<>>

\* A notification parser has just completed.
NotificationParsed ==
  Done("parse_apple_notification") \/ Done("parse_google_notification")

\* C21: price_info is there only when asked for: verify_and_get_details
\* without include_price_info returns price_info = None, the details
\* embedded in a notification have price_info = None, and
\* get_in_app_product is called only by verify_and_get_details with
\* include_price_info for a consumable or non-consumable Google purchase,
\* once, and only after get_product_purchase succeeded.
C21_PriceInfoOnRequest ==
  /\ (Done("verify_and_get_details") /\ ~input.include_price_info /\ result.ok)
       => result.v.price_info = None
  /\ (NotificationParsed /\ result.ok /\ "details" \in DOMAIN result.v.details)
       => result.v.details.details.price_info = None
  /\ StepsNamed("inappproducts.get") # {} =>
       /\ Done("verify_and_get_details")
       /\ input.include_price_info
       /\ input.purchase_id.vendor = "GooglePlayPurchaseToken"
       /\ input.T \in {"Consumable", "NonConsumable"}
       /\ input.world.product_purchase.status = "ok"
       /\ calls = <<Call("purchases.products.get",
                         <<ApplicationId, input.sku, input.purchase_id.id>>),
                    Call("inappproducts.get", <<ApplicationId, input.sku>>)>>

\* A one-time Google purchase verified without price info: one call, and
\* no price in the details.
C21_Witness ==
  /\ Done("verify_and_get_details")
  /\ input.purchase_id.vendor = "GooglePlayPurchaseToken"
  /\ input.T = "Consumable"
  /\ ~input.include_price_info
  /\ result.ok
  /\ result.v.price_info = None
  /\ Len(calls) = 1

\* The same with price info: the listing is fetched after the purchase.
C21_WitnessPriced ==
  /\ Done("verify_and_get_details")
  /\ input.T = "Consumable"
  /\ input.include_price_info
  /\ result.ok
  /\ result.v.price_info # None
  /\ StepsNamed("inappproducts.get") = {2}

\* A notification that embeds details: no price in them.
C21_WitnessNotification ==
  /\ Done("parse_google_notification")
  /\ result.ok
  /\ result.v.details.tag = "SubscriptionStarted"
  /\ result.v.details.details.price_info = None

\* from_apple_transaction was asked for price info.
ApplePriceRequested == Done("from_apple_transaction") /\ input.include_price_info
\* The thousandfold of the transaction's price, and whether it is an i64.
Thousandfold == i64_mul(input.m.price.v, 1000)
\* What the call returns for the requested price when price and currency
\* are there and the product is the one the claim describes.
PriceAsClaimed ==
  /\ ~Thousandfold.overflow
  /\ \/ /\ result.ok
        /\ result.v.price_info =
             Some([price_micros |-> Thousandfold.wrapped,
                   currency_iso_4217 |-> input.m.currency.v])
     \/ /\ input.T = "Subscription" /\ ~input.m.expires_date.some
        /\ result = MissingExpirationDate

\* C22: when price info is requested for an Apple transaction that has
\* price and currency, price_micros is exactly price x 1000 and the
\* currency is the transaction's; when price or currency is absent the
\* call fails with the invalid-response error.
C22_ApplePriceMicros ==
  ApplePriceRequested =>
    IF input.m.price.some /\ input.m.currency.some THEN PriceAsClaimed
    ELSE ~result.ok /\ result.err = "AppStoreServerApiInvalidResponse"

\* The same for the prices whose thousandfold is an i64: there the claim
\* holds, with or without overflow checks.
C22_InRangePriceMicros ==
  (ApplePriceRequested /\ (input.m.price.some => ~Thousandfold.overflow))
    => IF input.m.price.some /\ input.m.currency.some THEN PriceAsClaimed
       ELSE ~result.ok /\ result.err = "AppStoreServerApiInvalidResponse"

\* A price of 2^56 thousandths in a build without overflow checks: Ok,
\* with a price_micros that is not the thousandfold.
C22_WrappedPrice ==
  /\ ApplePriceRequested
  /\ input.m.price.some /\ input.m.currency.some
  /\ Thousandfold.overflow
  /\ ~input.overflow_checks
  /\ result.ok
  /\ result.v.price_info.v.price_micros = <<0, 0, 0, 59392>>

\* The same price in a build with overflow checks: the call panics.
C22_PanickedPrice ==
  /\ ApplePriceRequested
  /\ input.m.price.some /\ input.m.currency.some
  /\ input.overflow_checks
  /\ PricePanicked

\* A Google response has just been normalized.
GoogleNormalized ==
  Done("from_google_product_purchase") \/ Done("from_google_subscription_purchase")

\* C23: the region of a Google response is converted or refused: a
\* recognized alpha-2 code gives its alpha-3 code in the result, for one-time
\* purchases and for subscriptions; an unrecognized code makes the call fail
\* with the invalid-response error; the region is never dropped, defaulted,
\* passed through or the cause of a panic.
C23_GoogleRegion ==
  GoogleNormalized =>
    LET code == input.m.region_code
    IN /\ result.ok =>
            \/ code = "US" /\ result.v.region_iso3166_alpha_3 = "USA"
            \/ code = "NL" /\ result.v.region_iso3166_alpha_3 = "NLD"
       /\ code \notin {"US", "NL"} =>
            /\ ~result.ok
            /\ result.err = "GooglePlayDeveloperApiInvalidResponse"
       /\ ( /\ code \in {"US", "NL"}
            /\ ~result.ok
            /\ Done("from_google_subscription_purchase") ) =>
            \/ ~input.m.start_time.some
            \/ input.m.line_items = <<>>
       /\ ( /\ code \in {"US", "NL"}
            /\ ~result.ok
            /\ Done("from_google_product_purchase") ) =>
            /\ input.p.some
            /\ result.detail \in {"region code not found in product prices",
                                  "price micros could not be parsed"}

\* A subscription from an unrecognized region: refused.
C23_Witness ==
  /\ Done("from_google_subscription_purchase")
  /\ input.m.region_code = "ZZ"
  /\ input.m.start_time.some
  /\ input.m.line_items # <<>>
  /\ ~result.ok
  /\ result = Err("GooglePlayDeveloperApiInvalidResponse", "invalid region code")

\* A one-time purchase from the Netherlands: NLD.
C23_WitnessConverted ==
  /\ Done("from_google_product_purchase")
  /\ input.m.region_code = "NL"
  /\ result.ok
  /\ result.v.region_iso3166_alpha_3 = "NLD"

\* The Apple vendor callouts of the recorded call, in order.
AppleCallouts ==
  SelectSeq(calls, LAMBDA c : c.call \in {"GetTransactionInfo", "RequestTestNotification"})
\* Production is attempted first, and sandbox only after production failed.
ProductionFirst ==
  /\ AppleCallouts # <<>> => AppleCallouts[1].args = <<"production">>
  /\ \A i \in DOMAIN AppleCallouts :
       AppleCallouts[i].args = <<"sandbox">> =>
         /\ \E j \in 1..(i - 1) : AppleCallouts[j].args = <<"production">>
         /\ input.world.production.status # "ok"

\* C24: every Apple vendor callout, that of request_test_notification
\* included, attempts the production endpoint first and the sandbox
\* endpoint only after the production attempt has failed.
C24_FallbackForEveryCallout ==
  (Done("get_transaction_info") \/ Done("request_apple_test_notification"))
    => ProductionFirst

\* C24, as the code has it: get_transaction_info attempts production first
\* and sandbox only after production failed; request_test_notification
\* makes one callout, to the endpoint its sandbox argument names, and
\* returns that callout's result without any fallback.
C24_FallbackWhereTheCodeUsesIt ==
  /\ Done("get_transaction_info") =>
       /\ ProductionFirst
       /\ Len(AppleCallouts) = IF input.world.production.status = "ok" THEN 1 ELSE 2
  /\ Done("request_apple_test_notification") =>
       LET endpoint == IF input.sandbox THEN "sandbox" ELSE "production"
           answer == IF input.sandbox THEN input.world.sandbox ELSE input.world.production
       IN /\ calls = <<Call("RequestTestNotification", <<endpoint>>)>>
          /\ result = IF answer.status = "ok"
                      THEN Ok(answer.body.test_notification_token)
                      ELSE Err("AppStoreServerApiError", answer.status)

\* A test notification requested from sandbox while production would have
\* answered: sandbox alone is called.
C24_Witness ==
  /\ Done("request_apple_test_notification")
  /\ input.sandbox
  /\ input.world.production.status = "ok"
  /\ calls = <<Call("RequestTestNotification", <<"sandbox">>)>>

\* A test notification requested from production, which fails: the error
\* comes back although sandbox would have answered.
C24_WitnessNoFallback ==
  /\ Done("request_apple_test_notification")
  /\ ~input.sandbox
  /\ input.world.production.status # "ok"
  /\ input.world.sandbox.status = "ok"
  /\ ~result.ok
  /\ Len(calls) = 1

\* The recorded call ran into one of the arms marked unreachable.
ReachedUnreachable ==
  ~result.ok /\ result.err = "panic" /\ result.detail = "unreachable!()"

\* C25: no call of verify_and_get_details, parse_apple_notification or
\* parse_google_notification executes an unreachable extraction arm,
\* whatever the product type, the purchase id and the notification: a
\* Google token goes to the product-purchase endpoint exactly for
\* Consumable and NonConsumable ids and to the subscription endpoint
\* exactly for Subscription ids.
C25_NoUnreachableArm ==
  /\ ~ReachedUnreachable
  /\ ( /\ Done("verify_and_get_details")
       /\ input.purchase_id.vendor = "GooglePlayPurchaseToken" ) =>
       /\ calls # <<>>
       /\ input.T \in {"Consumable", "NonConsumable"} <=>
            calls[1] = Call("purchases.products.get",
                            <<ApplicationId, input.sku, input.purchase_id.id>>)
       /\ input.T = "Subscription" <=>
            calls[1] = Call("purchases.subscriptionsv2.get",
                            <<ApplicationId, input.purchase_id.id>>)
       /\ input.T = "Subscription" => StepsNamed("purchases.products.get") = {}
       /\ input.T # "Subscription" => StepsNamed("purchases.subscriptionsv2.get") = {}

\* A subscription id with a Google token: fetched from the subscription
\* endpoint and normalized.
C25_Witness ==
  /\ Done("verify_and_get_details")
  /\ input.purchase_id.vendor = "GooglePlayPurchaseToken"
  /\ input.T = "Subscription"
  /\ result.ok
  /\ result.v.type_specific_details.details = "SubscriptionDetails"
  /\ Len(calls) = 1

----------------------------------------------------------------------------
(* The pinned trust store                                                  *)

TrustStoreFailed == APPLE_TRUST_STORE.state = "init" /\ ~APPLE_TRUST_STORE.value.ok
PastTheStore(v) ==
  /\ verifiers[v].pc = "done"
  /\ ReachesTrustStore(verifiers[v].jws.v)

C26_WitnessFailed ==
  /\ TrustStoreFailed
  /\ \A v \in Verifiers : PastTheStore(v)

\* One thread waits at the store while the other runs the initializer.
C26_WitnessWaiting ==
  /\ APPLE_TRUST_STORE.state = "running"
  /\ \E v, w \in Verifiers : verifiers[v].pc = "loading" /\ verifiers[w].pc = "at_store"
----------------------------------------------------------------------------
(* Google subscription notifications: the fetch                            *)

\* A Google notification that is dispatched as a subscription notification.
GoogleSubscriptionDispatched ==
  /\ GoogleDelivered
  /\ ~GoogleNotificationIn.test_notification.some
  /\ GoogleNotificationIn.subscription_notification.some

\* C27: for every Google subscription notification, whatever its type, the
\* subscription is fetched with exactly one purchases.subscriptionsv2.get
\* call for the notification's package name and purchase token, and nothing
\* else is called; if the call fails the parse fails with the call's error,
\* and if the subscription has no line items it fails with
\* GooglePlayDeveloperApiInvalidResponse, also for the types classified as
\* Other; a notification that names a product names the one of the last
\* line item.
C27_SubscriptionFetchedFirst ==
  GoogleSubscriptionDispatched =>
    LET sub == GoogleNotificationIn.subscription_notification.v
        answer == input.world.subscription
        vendor_calls ==
          SelectSeq(calls, LAMBDA c : c.call \in {"purchases.subscriptionsv2.get",
                                                  "purchases.products.get",
                                                  "inappproducts.get",
                                                  "purchases.products.consume"})
    IN /\ vendor_calls =
            <<Call("purchases.subscriptionsv2.get",
                   <<GoogleNotificationIn.package_name, sub.purchase_token>>)>>
       /\ calls[Len(calls)] = vendor_calls[1]
       /\ IF answer.status # "ok" THEN
            result = Err("GooglePlayDeveloperApiError", answer.status)
          ELSE IF answer.body.line_items = <<>> THEN
            result = Err("GooglePlayDeveloperApiInvalidResponse",
                         "subscription did not have any line items")
          ELSE result.ok /\ result.v.details.tag # "Other" =>
                 result.v.details.product_id =
                   answer.body.line_items[Len(answer.body.line_items)].product_id

\* A cancellation notice (classified as Other) whose fetch failed: the parse
\* fails with the error of the call.
C27_Witness ==
  /\ GoogleSubscriptionDispatched
  /\ SubscriptionTypeIn = "SubscriptionCanceled"
  /\ input.world.subscription.status = "callout returned with 404 status code"
  /\ ~result.ok
  /\ SubscriptionFetches # <<>>

\* A price-change notice (Other) for a subscription without line items.
C27_WitnessNoLineItems ==
  /\ GoogleSubscriptionDispatched
  /\ SubscriptionTypeIn = "SubscriptionPriceChangeConfirmed"
  /\ input.world.subscription.status = "ok"
  /\ input.world.subscription.body.line_items = <<>>
  /\ ~result.ok

\* A renewal of a subscription with two line items of different products.
C27_WitnessLastItem ==
  /\ GoogleSubscriptionDispatched
  /\ input.world.subscription.status = "ok"
  /\ Len(input.world.subscription.body.line_items) = 2
  /\ input.world.subscription.body.line_items[1].product_id #
       input.world.subscription.body.line_items[2].product_id
  /\ result.ok
  /\ result.v.details.tag = "SubscriptionExpiryChanged"
  /\ result.v.details.product_id = input.world.subscription.body.line_items[2].product_id
----------------------------------------------------------------------------
(* Verified subscriptions are unexpired                                    *)

\* verify_and_get_details returned the details of a subscription.
SubscriptionVerified ==
  /\ Done("verify_and_get_details")
  /\ input.T = "Subscription"
  /\ result.ok

\* The clock readings is_active was computed from: the one reading of the
\* Apple normalizer; for Google one reading per line item examined, up to
\* and including the first item found unexpired.
ActivityReadings ==
  IF input.purchase_id.vendor = "AppStoreTransactionId" THEN {input.clock[1]}
  ELSE LET items == input.world.subscription.body.line_items
           unexpired == {i \in DOMAIN items : items[i].expiry_time > input.clock[i]}
           found == CHOOSE i \in unexpired : \A j \in unexpired : i <= j
       IN IF unexpired = {} THEN {input.clock[i] : i \in DOMAIN items}
          ELSE {input.clock[i] : i \in 1..found}

\* C28: every SubscriptionDetails that verify_and_get_details returns as Ok
\* belongs to details with is_active = true, and its expiration_time is
\* strictly later than every clock reading the activity was evaluated at,
\* for Apple and for Google; for Google the expiration_time is moreover not
\* earlier than the expiry of any line item.
C28_VerifiedSubscriptionUnexpired ==
  SubscriptionVerified =>
    LET expiration_time == result.v.type_specific_details.expiration_time
    IN /\ result.v.is_active
       /\ ActivityReadings # {}
       /\ \A t \in ActivityReadings : expiration_time > t
       /\ input.purchase_id.vendor = "GooglePlayPurchaseToken" =>
            \A i \in DOMAIN input.world.subscription.body.line_items :
              expiration_time >= input.world.subscription.body.line_items[i].expiry_time

\* A Google subscription with two line items, the first expired when it was
\* examined and the second not, verified at a later reading of the clock.
C28_Witness ==
  /\ SubscriptionVerified
  /\ input.purchase_id.vendor = "GooglePlayPurchaseToken"
  /\ Len(input.world.subscription.body.line_items) = 2
  /\ input.world.subscription.body.line_items[1].expiry_time <= input.clock[1]
  /\ input.clock[1] < input.clock[2]
  /\ result.v.type_specific_details.expiration_time =
       input.world.subscription.body.line_items[2].expiry_time

\* An Apple subscription verified before its expiry.
C28_WitnessApple ==
  /\ SubscriptionVerified
  /\ input.purchase_id.vendor = "AppStoreTransactionId"
  /\ now > 0
  /\ result.v.type_specific_details.expiration_time > now
----------------------------------------------------------------------------
(* The activity gate and the notifications                                 *)

\* The result of the call is a notification that embeds purchase details.
EmbedsDetails == result.ok /\ "details" \in DOMAIN result.v.details
EmbeddedIn == result.v.details.details
AppleRevokedOrExpired(m) ==
  \/ m.revocation_date.some
  \/ m.revocation_reason.some
  \/ m.expires_date.some /\ m.expires_date.v <= now
GoogleExpired(m) ==
  \A i \in DOMAIN m.line_items : m.line_items[i].expiry_time <= input.clock[i]

\* C29: NotActive comes from verify_and_get_details alone.  Neither parse
\* operation ever fails with NotActive; the details a notification embeds
\* are returned with the is_active the normalizer computed, and a
\* SubscriptionEnded, ConsumableVoided or NonConsumableVoided notification
\* about a revoked or expired transaction is returned Ok with is_active =
\* false in its details (an Apple subscription needs its expiration date,
\* as everywhere).
C29_GateOnlyInVerify ==
  /\ (pc = "done" /\ ~result.ok /\ result.err = "NotActive") =>
       op = "verify_and_get_details"
  /\ (AppleDelivered /\ HasTransactionIn /\ EmbedsDetails) =>
       /\ EmbeddedIn.is_active = AppleIsActive(TransactionIn, now)
       /\ AppleRevokedOrExpired(TransactionIn) => ~EmbeddedIn.is_active
  /\ ( /\ AppleDelivered /\ HasTransactionIn
       /\ NotificationIn.notification_type \in {"Expired", "Refund", "Revoke"}
       /\ AppleRevokedOrExpired(TransactionIn)
       /\ TransactionIn.expires_date.some ) =>
       /\ EmbedsDetails
       /\ result.v.details.tag \in
            {"SubscriptionEnded", "ConsumableVoided", "NonConsumableVoided"}
       /\ ~EmbeddedIn.is_active
  /\ (GoogleSubscriptionDelivered /\ EmbedsDetails) =>
       /\ EmbeddedIn.is_active = GoogleSubscriptionIsActive(ApiDataIn, input.clock)
       /\ GoogleExpired(ApiDataIn) => ~EmbeddedIn.is_active
  /\ ( /\ GoogleSubscriptionDelivered
       /\ SubscriptionTypeIn \in {"SubscriptionExpired", "SubscriptionRevoked"}
       /\ GoogleExpired(ApiDataIn)
       /\ ApiDetailsIn.ok ) =>
       /\ EmbedsDetails
       /\ result.v.details.tag = "SubscriptionEnded"
       /\ ~EmbeddedIn.is_active

\* An Apple Expired notification about an expired subscription: delivered
\* as SubscriptionEnded with inactive details.
C29_Witness ==
  /\ AppleDelivered /\ HasTransactionIn
  /\ NotificationIn.notification_type = "Expired"
  /\ TransactionIn.expires_date.some /\ TransactionIn.expires_date.v <= now
  /\ result.ok
  /\ result.v.details.tag = "SubscriptionEnded"
  /\ ~EmbeddedIn.is_active

\* A revoked consumable: delivered as ConsumableVoided with inactive details.
C29_WitnessConsumable ==
  /\ AppleDelivered /\ HasTransactionIn
  /\ TransactionIn.revocation_date.some
  /\ result.ok
  /\ result.v.details.tag = "ConsumableVoided"
  /\ ~EmbeddedIn.is_active

\* A revoked non-consumable: NonConsumableVoided with inactive details.
C29_WitnessNonConsumable ==
  /\ AppleDelivered /\ HasTransactionIn
  /\ TransactionIn.revocation_date.some
  /\ result.ok
  /\ result.v.details.tag = "NonConsumableVoided"
  /\ ~EmbeddedIn.is_active

\* A Google SubscriptionExpired notification about an expired subscription.
C29_WitnessGoogle ==
  /\ GoogleSubscriptionDelivered
  /\ SubscriptionTypeIn = "SubscriptionExpired"
  /\ GoogleExpired(ApiDataIn)
  /\ result.ok
  /\ result.v.details.tag = "SubscriptionEnded"
  /\ ~EmbeddedIn.is_active

\* The same purchase refused by verify_and_get_details.
C29_WitnessVerifyRefuses ==
  /\ Done("verify_and_get_details")
  /\ result = NotActive
----------------------------------------------------------------------------
(* The bearer token of the App Store Server API                            *)

\* A call that made at least one Apple callout has returned.
AppleCalledOut == pc = "done" /\ AppleCallouts # <<>>

\* C30: every Apple callout of a long-lived instance carries a bearer token
\* that has not expired when the callout is made: the time of the callout is
\* earlier than the token's exp, which is ten minutes after its iat,
\* whatever was called before and however long ago the instance was built.
C30_BearerUnexpired ==
  AppleCalledOut =>
    /\ authorization_header.token.exp = authorization_header.token.iat + JwtLifetime
    /\ now < authorization_header.token.exp

\* The token every callout carries is the one built by the constructor.
C30_TokenOfConstruction ==
  /\ jwt_token = build_jwt_token(0)
  /\ AppleCalledOut => authorization_header = [scheme |-> "Bearer", token |-> jwt_token]

\* A transaction was looked up, on production and then on sandbox, ten
\* minutes or more after the instance was built, with the token of the
\* constructor.
C30_ExpiredBearerSent ==
  /\ Done("get_transaction_info")
  /\ Len(AppleCallouts) = 2
  /\ authorization_header.token.iat = 0
  /\ now >= authorization_header.token.exp

\* A callout within the first ten minutes carries an unexpired token.
C30_FreshBearerSent ==
  /\ AppleCalledOut
  /\ now < authorization_header.token.exp
====
